---- MODULE Spec2Model ----
(***************************************************************************)
(* SOAREngine: the reliability layer (CircuitBreaker, DeadLetterQueue,     *)
(* with_retry), the operations guarded by it (enrich_ip, enrich_domain,    *)
(* send_slack_notification) and the playbook engine, as state machines.    *)
(*                                                                         *)
(* Every coroutine body that runs under `async with self._lock` and holds  *)
(* no other await is one atomic action.  Wall-clock time is monotonic.     *)
(***************************************************************************)
EXTENDS Integers, Sequences, FiniteSets, TLC

\* ------------------------------------------------------------------ bounds
\* Largest failure_threshold a breaker is constructed with.
MaxThreshold == 3
\* Largest half_open_max_calls a breaker is constructed with.
MaxHalfOpen == 2
\* Largest max_size a DeadLetterQueue is constructed with.
MaxCapacity == 2
\* add calls the model follows between two moments the queue is rewritten
\* by remove or clear.
MaxAdds == 3
\* Clock readings (utcnow) the DeadLetterQueue stamps entries with.
MaxClock == 2
\* create_playbook calls the model follows.
MaxCreated == 1
\* Enrich requests in flight at once on the stored alert.
MaxEnrichFlows == 2

\* Largest max_attempts a retried operation is decorated with.
MaxAttempts == 4
\* Alert-processing flows that call the shared breaker and the shared queue
\* at once, and the calls they make between them.
MaxFlows == 2
MaxFlowCalls == 3
\* Calls of breaker and queue methods the flows of guarded operations make
\* between them.
MaxGuardedCalls == 6

\* ------------------------------------------------------- program constants
\* datetime.timedelta.seconds is the seconds part of a normalised timedelta:
\* 0 <= seconds < 86400, the whole days are kept in .days.
SecondsPerDay == 86400
\* recovery_timeout of the two process-wide breakers.
EnrichmentRecoveryTimeout == 60
NotificationRecoveryTimeout == 30

None == -1

VARIABLES
    \* CircuitBreaker: configuration (set by __init__, never reassigned)
    failure_threshold, recovery_timeout, half_open_max_calls,
    \* CircuitBreaker: _state, _failure_count, _success_count, _half_open_calls
    cb_state, failure_count, success_count, half_open_calls,
    \* utcnow() - _last_failure_time in whole seconds; None while
    \* _last_failure_time is None
    last_failure_age,
    \* the breaker operation that ran last and what it returned
    cbOp, cbRet,
    \* record_failure calls made since the breaker was last closed with
    \* failure counter 0, no record_success in between (None: no such run)
    failRun,
    \* consecutive record_success calls, the first of them made on a
    \* half-open breaker, no record_failure in between
    succRun,
    \* the state the breaker left at its latest state change
    prev_state,
    \* calls admitted and successes recorded in the present half-open period
    ho_admitted,
    ho_successes,
    \* DeadLetterQueue: _max_size, _queue (oldest entry first)
    max_size, dlq_queue,
    \* datetime.utcnow() as the DeadLetterQueue reads it
    dlq_now,
    \* the DeadLetterQueue operation that ran last and what it returned
    dlqOp, dlqRet,
    \* the entries appended since remove or clear last rewrote the queue,
    \* after what the queue held then
    dlq_log,
    \* PlaybookEngine.playbooks (a dict: insertion order) and the uuid4 ids
    \* handed out so far
    playbooks, next_id,
    \* the stored alert (AlertDB row) and the enrich requests that have set
    \* it to processing and not yet stored their enrichment
    db_alert, enrich_flows,
    \* one run_playbooks_for_alert call: where it stands, its Alert object,
    \* the list find_matching_playbooks returned, the playbook it is at
    pc, alert, matching, pb_idx,
    \* execute_playbook's locals: the index of the next action,
    \* actions_executed, overall_success
    act_idx, actions_executed, overall_success,
    \* the handlers called in this execute_playbook, with what the
    \* collaborator did; the results list; the engine step taken last
    handled, results, pbOp,
    \* the last call when it was delete_playbook: its argument and what it
    \* returned, the registry it found; the ids delete_playbook has returned
    \* true for
    pb_arg, pb_ret, pb_before, pb_deleted,
    \* with_retry: the decorator's arguments
    max_attempts, min_wait, max_wait, exceptions,
    \* wrapper's locals attempt and last_exception, and where one call of
    \* the wrapper stands
    attempt, last_exception, rt_pc,
    \* what each invocation of the wrapped operation did in this call, the
    \* asyncio.sleep durations of this call, and what the call returned or
    \* raised
    rt_log, sleeps, rt_ret,
    \* A guarded operation (enrich_ip, enrich_domain,
    \* send_slack_notification): the integration it belongs to, the
    \* operation invoked, where the invocation stands, its result dict
    svc_class, svc_op, svc_pc, svc_result,
    \* what can_execute returned to this invocation, the record_success and
    \* record_failure calls it made, and the errors it passed to
    \* dead_letter_queue.add
    svc_admitted, svc_records, svc_dlq,
    \* the external calls its retried request made, and the exception that
    \* left the request (none when it returned)
    svc_calls, svc_outcome,
    \* One call of _execute_action: the action, the Alert object, what the
    \* enrichment collaborator does when awaited, whether the notification
    \* collaborator would deliver, the mapping before the call, the result
    \* dict, and where the call stands
    ea_action, ea_alert, ea_collab, ea_delivers, ea_before, ea_result, ea_pc,
    \* the indicators an enrichment action has still to look up
    ea_todo,
    \* One call of _check_trigger: its arguments and what it gave back
    ct_playbook, ct_alert, ct_ret,
    \* what find_matching_playbooks gives for a registry holding just that
    \* playbook
    ct_found,
    \* concurrent flows: where each stands in its call, the method it calls,
    \* add's payload, the counter and the list it read under the lock
    fl_pc, fl_op, fl_arg, fl_count, fl_queue,
    \* the flow holding the breaker's _lock and the queue's _lock (0: free)
    cb_lock, dlq_lock,
    \* calls begun, record_failure and add calls returned, methods called
    fl_started, fl_fails, fl_adds, fl_kinds,
    \* per flow: can_execute admitted its call and no outcome is recorded yet
    fl_admitted

cbVars == <<failure_threshold, recovery_timeout, half_open_max_calls,
            cb_state, failure_count, success_count, half_open_calls,
            last_failure_age, cbOp, cbRet, failRun, succRun, prev_state,
            ho_admitted, ho_successes>>

dlqVars == <<max_size, dlq_queue, dlq_now, dlqOp, dlqRet, dlq_log>>

pbVars == <<playbooks, next_id, db_alert, enrich_flows, pc, alert, matching,
            pb_idx, act_idx, actions_executed, overall_success, handled,
            results, pbOp, pb_arg, pb_ret, pb_before,
            pb_deleted>>

rtVars == <<max_attempts, min_wait, max_wait, exceptions, attempt,
            last_exception, rt_pc, rt_log, sleeps, rt_ret>>

svcVars == <<svc_class, svc_op, svc_pc, svc_result, svc_admitted,
             svc_records, svc_dlq, svc_calls, svc_outcome>>

eaVars == <<ea_action, ea_alert, ea_collab, ea_delivers, ea_before,
            ea_result, ea_pc, ea_todo>>

ctVars == <<ct_playbook, ct_alert, ct_ret, ct_found>>

flVars == <<fl_pc, fl_op, fl_arg, fl_count, fl_queue, cb_lock, dlq_lock,
            fl_started, fl_fails, fl_adds, fl_kinds, fl_admitted>>

vars == <<cbVars, dlqVars, pbVars, rtVars, svcVars, eaVars, ctVars, flVars>>

\* ----------------------------------------------------------- CircuitBreaker
CircuitState == {"closed", "open", "half_open"}

RecoveryTimeouts == {EnrichmentRecoveryTimeout, NotificationRecoveryTimeout}

\* The failure counter is not bounded by the code; the model stops counting
\* two past the largest threshold.
MaxFailureCount == MaxThreshold + 2

\* Representative elapsed times: around recovery_timeout, and the same
\* offsets one day later.
ElapsedPoints(rt) ==
    {1, rt - 1, rt, rt + 1, SecondsPerDay - 1, SecondsPerDay,
     SecondsPerDay + rt - 1, SecondsPerDay + rt}

\* (utcnow() - self._last_failure_time).seconds
Elapsed(age) == age % SecondsPerDay

CbInit ==
    /\ failure_threshold \in 1..MaxThreshold
    /\ recovery_timeout \in RecoveryTimeouts
    /\ half_open_max_calls \in 1..MaxHalfOpen
    /\ cb_state = "closed"
    /\ failure_count = 0
    /\ success_count = 0
    /\ last_failure_age = None
    /\ half_open_calls = 0
    /\ cbOp = "init"
    /\ cbRet = FALSE
    /\ failRun = 0
    /\ succRun = 0
    /\ prev_state = "none"
    /\ ho_admitted = 0
    /\ ho_successes = 0

\* can_execute, OPEN branch: _last_failure_time is set and the recovery
\* timeout has passed
RecoveryDue(age) ==
    /\ age # None
    /\ Elapsed(age) >= recovery_timeout

\* The body of can_execute; cbRet' is its return value.
can_execute ==
    /\ UNCHANGED <<failure_count, success_count, last_failure_age>>
    /\ IF cb_state = "closed"
       THEN /\ cbRet' = TRUE
            /\ UNCHANGED <<cb_state, half_open_calls>>
       ELSE IF cb_state = "open"
       THEN IF RecoveryDue(last_failure_age)
            THEN /\ cb_state' = "half_open"
                 /\ half_open_calls' = 0
                 /\ cbRet' = TRUE
            ELSE /\ cbRet' = FALSE
                 /\ UNCHANGED <<cb_state, half_open_calls>>
       ELSE IF half_open_calls < half_open_max_calls
            THEN /\ half_open_calls' = half_open_calls + 1
                 /\ cbRet' = TRUE
                 /\ UNCHANGED cb_state
            ELSE /\ cbRet' = FALSE
                 /\ UNCHANGED <<cb_state, half_open_calls>>

\* record_success, mutated: every state but CLOSED counts as probing.
record_success_AnyNonClosed ==
    /\ UNCHANGED <<last_failure_age, half_open_calls>>
    /\ IF cb_state # "closed"
       THEN IF success_count + 1 >= half_open_max_calls
            THEN /\ cb_state' = "closed"
                 /\ failure_count' = 0
                 /\ success_count' = 0
            ELSE /\ success_count' = success_count + 1
                 /\ UNCHANGED <<cb_state, failure_count>>
       ELSE /\ failure_count' = 0
            /\ UNCHANGED <<cb_state, success_count>>

\* record_success, mutated: the CLOSED branch is missing.
record_success_NeverForgives ==
    /\ UNCHANGED <<last_failure_age, half_open_calls>>
    /\ IF cb_state = "half_open"
       THEN IF success_count + 1 >= half_open_max_calls
            THEN /\ cb_state' = "closed"
                 /\ failure_count' = 0
                 /\ success_count' = 0
            ELSE /\ success_count' = success_count + 1
                 /\ UNCHANGED <<cb_state, failure_count>>
       ELSE UNCHANGED <<cb_state, failure_count, success_count>>

\* record_success, mutated: closing forgets to reset the failure counter.
record_success_KeepsFailures ==
    /\ UNCHANGED <<last_failure_age, half_open_calls>>
    /\ IF cb_state = "half_open"
       THEN IF success_count + 1 >= half_open_max_calls
            THEN /\ cb_state' = "closed"
                 /\ success_count' = 0
                 /\ UNCHANGED failure_count
            ELSE /\ success_count' = success_count + 1
                 /\ UNCHANGED <<cb_state, failure_count>>
       ELSE IF cb_state = "closed"
       THEN /\ failure_count' = 0
            /\ UNCHANGED <<cb_state, success_count>>
       ELSE UNCHANGED <<cb_state, failure_count, success_count>>

\* The body of record_success.
record_success ==
    /\ UNCHANGED <<last_failure_age, half_open_calls>>
    /\ IF cb_state = "half_open"
       THEN IF success_count + 1 >= half_open_max_calls
            THEN /\ cb_state' = "closed"
                 /\ failure_count' = 0
                 /\ success_count' = 0
            ELSE /\ success_count' = success_count + 1
                 /\ UNCHANGED <<cb_state, failure_count>>
       ELSE IF cb_state = "closed"
       THEN /\ failure_count' = 0
            /\ UNCHANGED <<cb_state, success_count>>
       ELSE UNCHANGED <<cb_state, failure_count, success_count>>

\* record_failure, mutated: the threshold test is off by one.
ThresholdReachedStrict(count) == count > failure_threshold
\* record_failure, CLOSED branch: self._failure_count >= self.failure_threshold
ThresholdReached(count) == count >= failure_threshold

\* record_failure, mutated: an open breaker ignores the failure.
record_failure_OpenIgnores ==
    /\ UNCHANGED <<success_count, half_open_calls>>
    /\ IF cb_state = "open"
       THEN UNCHANGED <<failure_count, last_failure_age, cb_state>>
       ELSE /\ failure_count' = failure_count + 1
            /\ last_failure_age' = 0
            /\ IF cb_state = "half_open"
               THEN cb_state' = "open"
               ELSE IF ThresholdReached(failure_count + 1)
               THEN cb_state' = "open"
               ELSE UNCHANGED cb_state

\* record_failure, mutated: the HALF_OPEN branch is missing.
record_failure_ProbeTolerant ==
    /\ failure_count' = failure_count + 1
    /\ last_failure_age' = 0
    /\ UNCHANGED <<success_count, half_open_calls>>
    /\ IF cb_state = "closed" /\ ThresholdReached(failure_count + 1)
       THEN cb_state' = "open"
       ELSE UNCHANGED cb_state

\* record_failure, mutated: the failure time is not stamped.
record_failure_NoStamp ==
    /\ failure_count' = failure_count + 1
    /\ UNCHANGED <<success_count, half_open_calls, last_failure_age>>
    /\ IF cb_state = "half_open"
       THEN cb_state' = "open"
       ELSE IF cb_state = "closed" /\ ThresholdReached(failure_count + 1)
       THEN cb_state' = "open"
       ELSE UNCHANGED cb_state

\* The body of record_failure.
record_failure ==
    /\ failure_count' = failure_count + 1
    /\ last_failure_age' = 0
    /\ UNCHANGED <<success_count, half_open_calls>>
    /\ IF cb_state = "half_open"
       THEN cb_state' = "open"
       ELSE IF cb_state = "closed" /\ ThresholdReached(failure_count + 1)
       THEN cb_state' = "open"
       ELSE UNCHANGED cb_state

\* What get_status returns.
get_status ==
    [state |-> cb_state,
     failure_count |-> failure_count,
     failure_threshold |-> failure_threshold,
     recovery_timeout |-> recovery_timeout,
     last_failure |-> last_failure_age]

cbConfig == <<failure_threshold, recovery_timeout, half_open_max_calls>>

\* prev_state follows the step's state change.
TrackChange ==
    prev_state' = IF cb_state' # cb_state THEN cb_state ELSE prev_state

\* ho_admitted and ho_successes count the calls can_execute admitted and the
\* successes recorded in the half-open period the breaker is in, from the
\* can_execute that entered it; both are 0 outside half-open.
TrackPeriod(admitted, succeeded) ==
    /\ ho_admitted' = IF cb_state' = "half_open"
                      THEN (IF cb_state = "half_open" THEN ho_admitted ELSE 0)
                           + admitted
                      ELSE 0
    /\ ho_successes' = IF cb_state' = "half_open"
                       THEN (IF cb_state = "half_open" THEN ho_successes ELSE 0)
                            + succeeded
                       ELSE 0

CanExecute ==
    /\ can_execute
    /\ cbOp' = "can_execute"
    /\ TrackChange
    /\ TrackPeriod(IF cbRet' THEN 1 ELSE 0, 0)
    /\ UNCHANGED <<cbConfig, failRun, succRun>>

RecordSuccess ==
    /\ record_success
    /\ cbOp' = "record_success"
    /\ cbRet' = FALSE
    /\ failRun' = IF cb_state' = "closed" /\ failure_count' = 0 THEN 0 ELSE None
    /\ \/ succRun' = IF succRun > 0 \/ cb_state = "half_open"
                     THEN IF succRun < half_open_max_calls
                          THEN succRun + 1 ELSE succRun
                     ELSE 0
       \/ /\ succRun = 0
          /\ succRun' = 0
    /\ TrackChange
    /\ TrackPeriod(0, 1)
    /\ UNCHANGED cbConfig

RecordFailure ==
    /\ failure_count < MaxFailureCount
    /\ record_failure
    /\ cbOp' = "record_failure"
    /\ cbRet' = FALSE
    /\ failRun' = IF failRun # None /\ failRun < failure_threshold
                  THEN failRun + 1 ELSE None
    /\ succRun' = 0
    /\ TrackChange
    /\ TrackPeriod(0, 0)
    /\ UNCHANGED cbConfig

GetStatus ==
    /\ cbOp' = "get_status"
    /\ cbRet' = FALSE
    /\ UNCHANGED <<cbConfig, cb_state, failure_count, success_count,
                   half_open_calls, last_failure_age, failRun, succRun,
                   prev_state, ho_admitted, ho_successes>>

\* Time passes between two operations; nothing is observable while
\* _last_failure_time is None.
AdvanceClock ==
    /\ last_failure_age # None
    /\ \E p \in ElapsedPoints(recovery_timeout) :
          /\ p > last_failure_age
          /\ last_failure_age' = p
    /\ cbOp' = "advance"
    /\ cbRet' = FALSE
    /\ UNCHANGED <<cbConfig, cb_state, failure_count, success_count,
                   half_open_calls, failRun, succRun, prev_state,
                   ho_admitted, ho_successes>>

CbNext ==
    \/ CanExecute
    \/ RecordSuccess
    \/ RecordFailure
    \/ GetStatus
    \/ AdvanceClock

\* ---------------------------------------------------- CircuitBreaker claims

\* C1: the breaker is always in exactly one of closed, open, half-open, and
\* every state change is closed->open by record_failure with the failure
\* counter at or above failure_threshold, open->half-open by can_execute with
\* at least recovery_timeout elapsed, half-open->closed by record_success or
\* half-open->open by record_failure; get_status changes nothing.
C1_StateMachine ==
    /\ [](cb_state \in CircuitState)
    /\ [][/\ cb_state' # cb_state =>
               \/ /\ cb_state = "closed" /\ cb_state' = "open"
                  /\ cbOp' = "record_failure"
                  /\ failure_count' >= failure_threshold
               \/ /\ cb_state = "open" /\ cb_state' = "half_open"
                  /\ cbOp' = "can_execute"
                  /\ last_failure_age # None
                  /\ last_failure_age >= recovery_timeout
               \/ /\ cb_state = "half_open" /\ cb_state' = "closed"
                  /\ cbOp' = "record_success"
               \/ /\ cb_state = "half_open" /\ cb_state' = "open"
                  /\ cbOp' = "record_failure"
          /\ cbOp' = "get_status" =>
               UNCHANGED <<cb_state, failure_count, success_count,
                           half_open_calls, last_failure_age>>]_vars

\* C1 witness: the breaker has gone round the whole cycle and was closed
\* again by record_success out of half-open.
C1_Witness ==
    /\ cb_state = "closed"
    /\ prev_state = "half_open"
    /\ cbOp = "record_success"
    /\ last_failure_age >= recovery_timeout

\* C2: from a closed breaker with failure counter 0, fewer than
\* failure_threshold record_failure calls with no record_success in between
\* leave it closed with can_execute returning true; exactly failure_threshold
\* of them leave it open, and a can_execute made right after returns false.
C2_ThresholdOpens ==
    /\ (failRun # None /\ failRun < failure_threshold) =>
          /\ cb_state = "closed"
          /\ cbOp = "can_execute" => cbRet = TRUE
    /\ (failRun = failure_threshold /\ last_failure_age = 0) =>
          /\ cb_state = "open"
          /\ cbOp = "can_execute" => cbRet = FALSE

\* C2 witness: the threshold-th failure in a row was recorded and the
\* can_execute that followed at once was refused.
C2_Witness ==
    /\ failure_threshold > 1
    /\ failRun = failure_threshold
    /\ last_failure_age = 0
    /\ cbOp = "can_execute"
    /\ cbRet = FALSE
    /\ cb_state = "open"

\* C3, as claimed: on an open breaker, can_execute moves to half-open, resets
\* the half-open call counter and returns true for every elapsed time
\* t >= recovery_timeout since the last failure, however large; for
\* t < recovery_timeout it returns false and the breaker stays open.
C3_RecoveryAfterTimeout ==
    [][(cb_state = "open" /\ cbOp' = "can_execute") =>
          IF last_failure_age >= recovery_timeout
          THEN cb_state' = "half_open" /\ half_open_calls' = 0 /\ cbRet' = TRUE
          ELSE cb_state' = "open" /\ cbRet' = FALSE]_vars

\* C4: one record_failure on a half-open breaker opens it and stamps the
\* failure, whatever the counters are; while less than recovery_timeout has
\* elapsed since the last failure, can_execute on the open breaker returns
\* false and leaves it open.
C4_ProbeFailureReopens ==
    [][/\ (cbOp' = "record_failure" /\ cb_state = "half_open") =>
              (cb_state' = "open" /\ last_failure_age' = 0)
       /\ (cbOp' = "can_execute" /\ cb_state = "open"
              /\ last_failure_age < recovery_timeout) =>
              (cb_state' = "open" /\ cbRet' = FALSE)]_vars

\* C4 witness: a probe failed below the failure threshold, the breaker is open
\* again and the next can_execute was refused.
C4_Witness ==
    /\ cb_state = "open"
    /\ prev_state = "half_open"
    /\ cbOp = "can_execute"
    /\ cbRet = FALSE
    /\ last_failure_age = 0
    /\ success_count > 0
    /\ half_open_calls > 0

\* C5: half_open_max_calls record_success calls in a row, the first of them
\* on a half-open breaker, leave the breaker closed with the failure counter
\* and the success counter at 0.
C5_ProbeSuccessCloses ==
    succRun >= half_open_max_calls =>
        /\ cb_state = "closed"
        /\ failure_count = 0
        /\ success_count = 0

\* C5 witness: the breaker was closed by the last of half_open_max_calls > 1
\* successes in a row.
C5_Witness ==
    /\ half_open_max_calls > 1
    /\ succRun = half_open_max_calls
    /\ cbOp = "record_success"
    /\ cb_state = "closed"
    /\ prev_state = "half_open"

\* C28: record_success on a closed breaker resets the failure counter to 0
\* and leaves it closed; a closed breaker's counter is the length of the run
\* of failures recorded since the last success, and the breaker leaves
\* closed only by the record_failure that makes that run failure_threshold
\* long. So while every run is shorter than the threshold it stays closed.
C28_SuccessForgives ==
    [][/\ (cb_state = "closed" /\ cbOp' = "record_success") =>
             /\ cb_state' = "closed"
             /\ failure_count' = 0
             /\ failRun' = 0
       /\ (cb_state = "closed" /\ cbOp' = "record_failure") =>
             /\ failRun' = failRun + 1
             /\ failure_count' = failRun'
             /\ cb_state' = IF failRun' < failure_threshold
                            THEN "closed" ELSE "open"
       /\ (cb_state = "closed" /\ cb_state' # "closed") =>
             /\ cbOp' = "record_failure"
             /\ failRun' = failure_threshold]_vars

\* C28 witness: a breaker that never left closed had recorded a failure, and
\* the record_success that followed put the counter back to 0.
C28_Witness ==
    /\ cb_state = "closed"
    /\ prev_state = "none"
    /\ cbOp = "record_success"
    /\ failure_threshold > 1
    /\ last_failure_age # None
    /\ failure_count = 0
    /\ failRun = 0

\* C30: record_failure on an open breaker leaves it open, adds one to the
\* failure counter and stamps the failure time anew, so the open breaker
\* admits a call only when recovery_timeout has passed since the latest
\* recorded failure; record_success on an open breaker changes nothing.
C30_OpenBreakerRecords ==
    [][/\ (cb_state = "open" /\ cbOp' = "record_failure") =>
             /\ cb_state' = "open"
             /\ failure_count' = failure_count + 1
             /\ last_failure_age' = 0
             /\ UNCHANGED <<success_count, half_open_calls>>
       /\ (cb_state = "open" /\ cbOp' = "record_success") =>
             UNCHANGED <<cb_state, failure_count, success_count,
                         half_open_calls, last_failure_age>>
       /\ (cb_state = "open" /\ cbOp' = "can_execute" /\ cbRet') =>
             last_failure_age >= recovery_timeout]_vars

\* C30 witness: the breaker opened from closed and a failure was recorded on
\* it while open; just short of recovery_timeout after that failure
\* can_execute was refused.
C30_Witness ==
    /\ cb_state = "open"
    /\ prev_state = "closed"
    /\ failure_count > failure_threshold
    /\ cbOp = "can_execute"
    /\ cbRet = FALSE
    /\ last_failure_age = recovery_timeout - 1

\* ---------------------------------------------------------- DeadLetterQueue
OperationType == {"enrichment", "notification", "playbook", "webhook"}

\* The operation types the callers of add pass (enrichment.py,
\* notifications.py) and the payloads the model tells entries apart by.
AddTypes == {"enrichment", "notification"}
Payloads == {"a", "b", "c"}

\* What an operation gave back: the value it returned, or the error it raised.
Returned(value) == [raised |-> "none", value |-> value]
Raised(error) == [raised |-> error, value |-> <<>>]

DlqInit ==
    /\ max_size \in 0..MaxCapacity
    /\ dlq_queue = <<>>
    /\ dlq_now = 0
    /\ dlqOp = "init"
    /\ dlqRet = Returned(<<>>)
    /\ dlq_log = <<>>

\* The entry add builds; "id" and "created_at" are both the clock reading.
NewEntry(operation_type, payload) ==
    [id |-> dlq_now,
     operation_type |-> operation_type,
     payload |-> payload,
     retry_count |-> 0,
     status |-> "pending"]

\* add, mutated: evicts only above capacity.
AtCapacityStrict(queue) == Len(queue) > max_size
\* add: len(self._queue) >= self._max_size
AtCapacity(queue) == Len(queue) >= max_size

\* add, mutated: pop() instead of pop(0).
PopNewest(queue) == SubSeq(queue, 1, Len(queue) - 1)
\* add: self._queue.pop(0)
PopOldest(queue) == Tail(queue)

\* The queue after remove(entry_id): the first entry with that id is popped.
RemoveFirst(queue, entry_id) ==
    LET hits == {i \in 1..Len(queue) : queue[i].id = entry_id}
        first == CHOOSE i \in hits : \A j \in hits : i <= j
    IN  IF hits = {} THEN queue
        ELSE SubSeq(queue, 1, first - 1) \o SubSeq(queue, first + 1, Len(queue))

\* What get_all, get_by_type and get_stats return.
get_all == dlq_queue

get_by_type(operation_type) ==
    SelectSeq(dlq_queue, LAMBDA e : e.operation_type = operation_type)

get_stats ==
    [total_entries |-> Len(dlq_queue),
     max_size |-> max_size,
     by_type |-> [t \in {dlq_queue[i].operation_type : i \in 1..Len(dlq_queue)} |->
                    Cardinality({i \in 1..Len(dlq_queue) :
                                   dlq_queue[i].operation_type = t})]]

\* The body of add: pop(0) on an empty list raises IndexError before
\* anything is appended.
add(operation_type, payload) ==
    /\ LET entry == NewEntry(operation_type, payload) IN
          IF AtCapacity(dlq_queue) /\ dlq_queue = <<>>
          THEN /\ dlqRet' = Raised("IndexError")
               /\ UNCHANGED <<dlq_queue, dlq_log>>
          ELSE /\ dlq_queue' = Append(IF AtCapacity(dlq_queue)
                                      THEN PopOldest(dlq_queue)
                                      ELSE dlq_queue, entry)
               /\ dlqRet' = Returned(entry)
               /\ dlq_log' = Append(dlq_log, entry)
    /\ dlqOp' = "add"
    /\ UNCHANGED <<max_size, dlq_now>>

DlqAdd ==
    /\ Len(dlq_log) < MaxAdds
    /\ \E operation_type \in AddTypes, payload \in Payloads :
          add(operation_type, payload)

DlqRemove ==
    /\ \E entry_id \in 0..MaxClock :
          /\ dlq_queue' = RemoveFirst(dlq_queue, entry_id)
          /\ dlqRet' = Returned(\E i \in 1..Len(dlq_queue) :
                                   dlq_queue[i].id = entry_id)
    /\ dlq_log' = IF dlq_queue' = dlq_queue THEN dlq_log ELSE dlq_queue'
    /\ dlqOp' = "remove"
    /\ UNCHANGED <<max_size, dlq_now>>

DlqClear ==
    /\ dlqRet' = Returned(Len(dlq_queue))
    /\ dlq_queue' = <<>>
    /\ dlq_log' = <<>>
    /\ dlqOp' = "clear"
    /\ UNCHANGED <<max_size, dlq_now>>

\* The clock moves on between two operations.
DlqTick ==
    /\ dlq_now < MaxClock
    /\ dlq_now' = dlq_now + 1
    /\ dlqOp' = "tick"
    /\ dlqRet' = Returned(<<>>)
    /\ UNCHANGED <<max_size, dlq_queue, dlq_log>>

DlqNext ==
    \/ DlqAdd
    \/ DlqRemove
    \/ DlqClear
    \/ DlqTick

\* --------------------------------------------------- DeadLetterQueue claims

\* C6: after any sequence of add, remove and clear the queue holds at most
\* max_size entries, and get_stats reports total_entries <= max_size.
C6_BoundedQueue ==
    /\ Len(dlq_queue) <= max_size
    /\ get_stats.total_entries <= get_stats.max_size

\* C6 witness: a full queue of capacity 2 took one more add.
C6_Witness ==
    /\ max_size = 2
    /\ dlqOp = "add"
    /\ Len(dlq_queue) = max_size
    /\ Len(dlq_log) > max_size

\* The last n elements of a sequence.
LastN(seq, n) ==
    IF Len(seq) <= n THEN seq ELSE SubSeq(seq, Len(seq) - n + 1, Len(seq))

\* C7: add on a queue holding max_size entries removes exactly the head,
\* keeps the others in order and puts the new entry last; add below capacity
\* removes nothing. So the queue is always the newest max_size entries of
\* what was added, oldest first.
C7_EvictsOldest ==
    /\ [](/\ dlq_queue = LastN(dlq_log, max_size)
          /\ \A i, j \in 1..Len(get_all) :
                i < j => get_all[i].id <= get_all[j].id)
    /\ [][(dlqOp' = "add" /\ dlqRet'.raised = "none") =>
             LET n == Len(dlq_queue) IN
             IF n >= max_size
             THEN /\ Len(dlq_queue') = n
                  /\ \A i \in 1..(n - 1) : dlq_queue'[i] = dlq_queue[i + 1]
                  /\ dlq_queue'[n] = dlqRet'.value
             ELSE /\ Len(dlq_queue') = n + 1
                  /\ \A i \in 1..n : dlq_queue'[i] = dlq_queue[i]
                  /\ dlq_queue'[n + 1] = dlqRet'.value]_vars

\* C7 witness: capacity 2, a, b, c added in order, the queue holds [b, c].
C7_Witness ==
    /\ max_size = 2
    /\ Len(dlq_log) = 3
    /\ [i \in 1..3 |-> dlq_log[i].payload] = <<"a", "b", "c">>
    /\ [i \in 1..Len(get_all) |-> get_all[i].payload] = <<"b", "c">>

\* C26: no DeadLetterQueue operation raises, whatever non-negative capacity
\* the queue was constructed with: every operation returns a value.
C26_NeverRaises == dlqRet.raised = "none"

\* What C27 says one remove(entry_id) call does to the queue.
RemovesAll(entry_id) ==
    LET held == \E i \in 1..Len(dlq_queue) : dlq_queue[i].id = entry_id
    IN  /\ dlqRet'.value = held
        /\ dlq_queue' = SelectSeq(dlq_queue, LAMBDA e : e.id # entry_id)
        /\ ~held => dlq_queue' = dlq_queue

\* C27: remove(id) returns true exactly when the queue held an entry with
\* that id; afterwards no entry with that id is left and the others are there
\* in their order; on false the queue is as it was. Also for entries whose
\* add calls read the same clock value.
C27_RemoveById ==
    [][dlqOp' = "remove" => \E entry_id \in 0..MaxClock : RemovesAll(entry_id)]_vars

\* --------------------------------------------------------------- with_retry
\* An exception: its class and its text, str(e).
Error(cls, msg) == [cls |-> cls, msg |-> msg]

\* No exception: an invocation that returned, last_exception = None.
NoError == Error("none", "")

\* The class of an exception with the classes it inherits from.
Bases(cls) ==
    IF cls = "TimeoutException" THEN {"TimeoutException", "HTTPError", "Exception"}
    ELSE IF cls = "HTTPError" THEN {"HTTPError", "Exception"}
    ELSE IF cls = "none" THEN {}
    ELSE {cls, "Exception"}

\* What an invocation of a wrapped operation raises: a status other than
\* 200, a timeout of the client, a 200 response whose body is not JSON.
Errors ==
    { Error("HTTPError", "API returned status 500"),
      Error("HTTPError", "API returned status 503"),
      Error("TimeoutException", "timed out"),
      Error("ValueError", "Expecting value") }

\* The exceptions arguments with_retry is given: the one of the three
\* decorated operations, and the default.
ExceptionTuples == { {"HTTPError", "TimeoutException"}, {"Exception"} }

MinWaits == {1, 2}
MaxWaits == {3, 10}

\* "except exceptions as e", mutated: every error is caught.
RetryableAny(e, excs) == TRUE
\* "except exceptions as e": e is an instance of a class of the tuple.
Retryable(e, excs) == Bases(e.cls) \cap excs # {}

Min(a, b) == IF a <= b THEN a ELSE b

\* wait_time, mutated: no cap.
WaitTimeUncapped(n, lo, hi) == lo * (2 ^ (n - 1))
\* wait_time = min(max_wait, min_wait * (2 ** (attempt - 1)))
WaitTime(n, lo, hi) == Min(hi, lo * (2 ^ (n - 1)))

\* "if attempt < max_attempts", mutated: it sleeps after every failure.
SleepsAfterAlways(n, most) == TRUE
\* "if attempt < max_attempts": sleep, else log that all retries failed.
SleepsAfter(n, most) == n < most

RetryFresh ==
    /\ attempt = 0
    /\ last_exception = NoError
    /\ rt_pc = "idle"
    /\ rt_log = <<>>
    /\ sleeps = <<>>
    /\ rt_ret = [raised |-> NoError, value |-> ""]

RetryInit ==
    /\ max_attempts \in 1..MaxAttempts
    /\ min_wait \in MinWaits
    /\ max_wait \in MaxWaits
    /\ exceptions \in ExceptionTuples
    /\ RetryFresh

\* wrapper is called: attempt = 0, last_exception = None.
RetryCall ==
    /\ rt_pc \in {"idle", "returned", "raised"}
    /\ attempt' = 0
    /\ last_exception' = NoError
    /\ rt_pc' = "loop"
    /\ rt_log' = <<>>
    /\ sleeps' = <<>>
    /\ rt_ret' = [raised |-> NoError, value |-> ""]
    /\ UNCHANGED <<max_attempts, min_wait, max_wait, exceptions>>

\* One turn of the while loop up to its sleep: the operation is invoked; its
\* value is returned, or its error is caught and counted, or its error is
\* not of the tuple and leaves the wrapper.
RetryInvoke ==
    /\ rt_pc = "loop"
    /\ attempt < max_attempts
    /\ \E outcome \in {NoError} \cup Errors :
          /\ rt_log' = Append(rt_log, outcome)
          /\ IF outcome = NoError
             THEN /\ rt_pc' = "returned"
                  /\ rt_ret' = [raised |-> NoError, value |-> "data"]
                  /\ UNCHANGED <<attempt, last_exception>>
             ELSE IF Retryable(outcome, exceptions)
             THEN /\ attempt' = attempt + 1
                  /\ last_exception' = outcome
                  /\ rt_pc' = IF SleepsAfter(attempt', max_attempts)
                              THEN "sleep" ELSE "loop"
                  /\ UNCHANGED rt_ret
             ELSE /\ rt_pc' = "raised"
                  /\ rt_ret' = [raised |-> outcome, value |-> ""]
                  /\ UNCHANGED <<attempt, last_exception>>
    /\ UNCHANGED <<max_attempts, min_wait, max_wait, exceptions, sleeps>>

\* await asyncio.sleep(wait_time)
RetrySleep ==
    /\ rt_pc = "sleep"
    /\ sleeps' = Append(sleeps, WaitTime(attempt, min_wait, max_wait))
    /\ rt_pc' = "loop"
    /\ UNCHANGED <<max_attempts, min_wait, max_wait, exceptions, attempt,
                   last_exception, rt_log, rt_ret>>

\* The loop is left: raise last_exception.
RetryExhausted ==
    /\ rt_pc = "loop"
    /\ ~(attempt < max_attempts)
    /\ rt_pc' = "raised"
    /\ rt_ret' = [raised |-> last_exception, value |-> ""]
    /\ UNCHANGED <<max_attempts, min_wait, max_wait, exceptions, attempt,
                   last_exception, rt_log, sleeps>>

\* -------------------------------------------------------- with_retry claims
\* The first n invocations of the call each failed with a retryable error.
FailedRetryably(n) ==
    \A i \in 1..n : rt_log[i] # NoError /\ Bases(rt_log[i].cls) \cap exceptions # {}

\* The backoff the k-th sleep of a call is to last.
Backoff(k) ==
    IF max_wait <= min_wait * (2 ^ (k - 1)) THEN max_wait
    ELSE min_wait * (2 ^ (k - 1))

\* C12: when invocation j <= max_attempts is the first to succeed, the ones
\* before it having failed retryably, the wrapper returns the success value
\* after exactly j invocations and exactly j - 1 sleeps, the k-th of them
\* lasting min(max_wait, min_wait * 2^(k-1)); so j = max_attempts gives
\* max_attempts invocations and max_attempts - 1 sleeps.
C12_RetryThenSuccess ==
    /\ \A j \in 1..Len(rt_log) :
          (rt_log[j] = NoError /\ FailedRetryably(j - 1)) =>
              /\ j <= max_attempts
              /\ Len(rt_log) = j
              /\ rt_pc = "returned"
              /\ rt_ret = [raised |-> NoError, value |-> "data"]
              /\ Len(sleeps) = j - 1
    /\ \A k \in 1..Len(sleeps) : sleeps[k] = Backoff(k)
    /\ rt_pc = "returned" => rt_log[Len(rt_log)] = NoError

\* C12 witness: the operation succeeded on its last allowed invocation, the
\* fourth, and the third sleep was cut to max_wait.
C12_Witness ==
    /\ rt_pc = "returned"
    /\ max_attempts = 4
    /\ Len(rt_log) = max_attempts
    /\ FailedRetryably(max_attempts - 1)
    /\ Len(sleeps) = 3
    /\ sleeps[3] = max_wait
    /\ sleeps[3] < min_wait * 4

\* C13: the operation is never invoked more than max_attempts times; when
\* every invocation failed retryably and max_attempts of them were made, no
\* sleep follows the last one, max_attempts - 1 sleeps were made, and the
\* call ends raising the error of the last invocation.
C13_RetryExhausted ==
    /\ Len(rt_log) <= max_attempts
    /\ Len(sleeps) <= max_attempts - 1
    /\ (Len(rt_log) = max_attempts /\ FailedRetryably(max_attempts)) =>
          /\ rt_pc \in {"loop", "raised"}
          /\ Len(sleeps) = max_attempts - 1
          /\ rt_pc = "raised" => rt_ret.raised = rt_log[max_attempts]
    /\ (rt_pc = "raised" /\ FailedRetryably(Len(rt_log))) =>
          Len(rt_log) = max_attempts

\* C13 witness: three attempts failed with three different errors and the
\* call raised the third.
C13_Witness ==
    /\ rt_pc = "raised"
    /\ max_attempts = 3
    /\ Len(rt_log) = 3
    /\ FailedRetryably(3)
    /\ rt_log[1] # rt_log[3]
    /\ rt_log[2] # rt_log[3]
    /\ rt_ret.raised = rt_log[3]
    /\ Len(sleeps) = 2

\* C14: an invocation that raises an error that is not an instance of a
\* class of the exceptions tuple is the last of the call, whichever attempt
\* it is: the call ends raising that error, no sleep follows it and the
\* operation is not invoked again.
C14_NonRetryablePropagates ==
    \A i \in 1..Len(rt_log) :
        (rt_log[i] # NoError /\ Bases(rt_log[i].cls) \cap exceptions = {}) =>
            /\ i = Len(rt_log)
            /\ rt_pc = "raised"
            /\ rt_ret.raised = rt_log[i]
            /\ Len(sleeps) = i - 1
            /\ FailedRetryably(i - 1)

\* C14 witness: the second of three allowed invocations raised an error
\* outside the tuple after the first raised a retryable one.
C14_Witness ==
    /\ rt_pc = "raised"
    /\ max_attempts >= 3
    /\ Len(rt_log) = 2
    /\ rt_log[2].cls = "ValueError"
    /\ ~("Exception" \in exceptions)
    /\ Len(sleeps) = 1

\* ------------------------------------------------------- guarded operations
\* The operations that call out through a breaker and a retried request.
GuardedOps(class) ==
    IF class = "enrichment" THEN {"enrich_ip", "enrich_domain"}
    ELSE {"send_slack_notification"}

\* The breaker of the integration: enrichment_circuit, notification_circuit.
CircuitTimeout(class) ==
    IF class = "enrichment" THEN EnrichmentRecoveryTimeout
    ELSE NotificationRecoveryTimeout

\* The payload each operation hands to dead_letter_queue.add.
GuardPayload(op) ==
    IF op = "enrich_ip" THEN "a" ELSE IF op = "enrich_domain" THEN "b" ELSE "c"

\* The result dict as each operation first builds it.
InitialResult(op) ==
    IF op = "enrich_ip" THEN [source |-> "abuseipdb", data |-> "None", error |-> ""]
    ELSE IF op = "enrich_domain"
    THEN [source |-> "virustotal", data |-> "None", error |-> ""]
    ELSE [success |-> FALSE, error |-> ""]

\* "if not self.abuseipdb_key" / virustotal_key / slack_webhook_url: the
\* mock answer.
MockResult(op) ==
    IF op = "send_slack_notification"
    THEN [InitialResult(op) EXCEPT !.success = TRUE]
    ELSE [InitialResult(op) EXCEPT !.data = "mock", !.source = "mock"]

\* The result returned when can_execute said no.
RejectedError(op) ==
    IF op = "send_slack_notification"
    THEN "Circuit breaker open for notifications"
    ELSE "Circuit breaker open"

RejectedResult(op) ==
    IF op = "send_slack_notification"
    THEN [InitialResult(op) EXCEPT !.error = RejectedError(op)]
    ELSE [InitialResult(op) EXCEPT !.data = "mock",
                                   !.source = "mock (circuit open)"]

\* The result after the try body ran through.
SucceededResult(op, value) ==
    IF op = "send_slack_notification"
    THEN [InitialResult(op) EXCEPT !.success = TRUE]
    ELSE [InitialResult(op) EXCEPT !.data = value]

\* The result the except branch leaves.
FailedResult(op, e) ==
    IF op = "send_slack_notification"
    THEN [InitialResult(op) EXCEPT !.error = e.msg]
    ELSE [InitialResult(op) EXCEPT !.error = e.msg, !.data = "mock",
                                   !.source = "mock (fallback)"]

\* "if not await circuit.can_execute()", mutated: the answer is ignored.
RejectsNever(allowed) == FALSE
\* "if not await circuit.can_execute()"
Rejects(allowed) == ~allowed

\* The retried request has returned or raised: its frame is gone.
RetryLeft ==
    /\ attempt' = 0
    /\ last_exception' = NoError
    /\ rt_pc' = "idle"
    /\ rt_log' = <<>>
    /\ sleeps' = <<>>
    /\ rt_ret' = [raised |-> NoError, value |-> ""]
    /\ UNCHANGED <<max_attempts, min_wait, max_wait, exceptions>>

GuardIdle ==
    /\ svc_class = "enrichment"
    /\ svc_op = "none"
    /\ svc_pc = "idle"
    /\ svc_result = InitialResult("enrich_ip")
    /\ svc_admitted = "none"
    /\ svc_records = <<>>
    /\ svc_dlq = <<>>
    /\ svc_calls = 0
    /\ svc_outcome = NoError

\* The process-wide objects of one integration: its breaker, the queue
\* (constructed with a positive max_size), the decorator of its request.
GuardInit ==
    /\ svc_class \in {"enrichment", "notification"}
    /\ svc_op = "none"
    /\ svc_pc = "idle"
    /\ svc_result = InitialResult("enrich_ip")
    /\ svc_admitted = "none"
    /\ svc_records = <<>>
    /\ svc_dlq = <<>>
    /\ svc_calls = 0
    /\ svc_outcome = NoError
    /\ CbInit
    /\ recovery_timeout = CircuitTimeout(svc_class)
    /\ DlqInit
    /\ max_size >= 1

\* The operation is called. Without a key (webhook URL) it returns the mock
\* answer at once; with one it goes on to ask the breaker.
GuardBegin ==
    /\ svc_pc = "idle"
    /\ \E op \in GuardedOps(svc_class), configured \in BOOLEAN :
          /\ svc_op' = op
          /\ IF configured
             THEN /\ svc_pc' = "check"
                  /\ svc_result' = InitialResult(op)
             ELSE /\ svc_pc' = "idle"
                  /\ svc_result' = MockResult(op)
    /\ svc_admitted' = "none"
    /\ svc_records' = <<>>
    /\ svc_dlq' = <<>>
    /\ svc_calls' = 0
    /\ svc_outcome' = NoError
    /\ UNCHANGED <<svc_class, cbVars, dlqVars, rtVars>>

\* await circuit.can_execute()
GuardCheck ==
    /\ svc_pc = "check"
    /\ CanExecute
    /\ svc_admitted' = IF cbRet' THEN "true" ELSE "false"
    /\ svc_pc' = IF Rejects(cbRet') THEN "rejected" ELSE "call"
    /\ UNCHANGED <<svc_class, svc_op, svc_result, svc_records, svc_dlq,
                   svc_calls, svc_outcome, dlqVars, rtVars>>

\* The breaker said no: one entry is dead-lettered and the degraded result
\* returned.
GuardRejected ==
    /\ svc_pc = "rejected"
    /\ Len(dlq_log) < MaxAdds
    /\ add(svc_class, GuardPayload(svc_op))
    /\ svc_dlq' = Append(svc_dlq, [cause |-> "circuit open",
                                   error |-> RejectedError(svc_op)])
    /\ svc_result' = RejectedResult(svc_op)
    /\ svc_pc' = "idle"
    /\ UNCHANGED <<svc_class, svc_op, svc_admitted, svc_records, svc_calls,
                   svc_outcome, cbVars, rtVars>>

\* try: await self._call_abuseipdb / _call_virustotal / _send_slack_request
GuardCall ==
    /\ svc_pc = "call"
    /\ RetryCall
    /\ svc_pc' = "retrying"
    /\ UNCHANGED <<svc_class, svc_op, svc_result, svc_admitted, svc_records,
                   svc_dlq, svc_calls, svc_outcome, cbVars, dlqVars>>

\* What one external call of a guarded operation does: it answers, it
\* fails with a status other than 200, or its answer cannot be decoded.
GuardOutcomes ==
    {NoError, Error("HTTPError", "API returned status 500"),
     Error("ValueError", "Expecting value")}

\* The retried request runs: an invocation (one external call), a sleep, or
\* the loop's exit.
GuardInvoke ==
    /\ svc_pc = "retrying"
    /\ RetryInvoke
    /\ rt_log'[Len(rt_log')] \in GuardOutcomes
    /\ UNCHANGED <<svcVars, cbVars, dlqVars>>

GuardSleep ==
    /\ svc_pc = "retrying"
    /\ RetrySleep
    /\ UNCHANGED <<svcVars, cbVars, dlqVars>>

GuardExhausted ==
    /\ svc_pc = "retrying"
    /\ RetryExhausted
    /\ UNCHANGED <<svcVars, cbVars, dlqVars>>

\* The request returned: record_success, and the result is complete.
GuardSucceeded ==
    /\ svc_pc = "retrying"
    /\ rt_pc = "returned"
    /\ RecordSuccess
    /\ svc_records' = Append(svc_records, "success")
    /\ svc_result' = SucceededResult(svc_op, rt_ret.value)
    /\ svc_calls' = Len(rt_log)
    /\ svc_outcome' = NoError
    /\ svc_pc' = "idle"
    /\ RetryLeft
    /\ UNCHANGED <<svc_class, svc_op, svc_admitted, svc_dlq, dlqVars>>

\* except Exception, mutated: the failure is not recorded on the breaker.
GuardFailed_NoRecord ==
    /\ svc_pc = "retrying"
    /\ rt_pc = "raised"
    /\ "Exception" \in Bases(rt_ret.raised.cls)
    /\ svc_calls' = Len(rt_log)
    /\ svc_outcome' = rt_ret.raised
    /\ svc_pc' = "dead_letter"
    /\ RetryLeft
    /\ UNCHANGED <<svc_class, svc_op, svc_result, svc_admitted, svc_records,
                   svc_dlq, cbVars, dlqVars>>

\* The request raised: "except Exception as e" catches whatever it was, and
\* record_failure is awaited first.
GuardFailed ==
    /\ svc_pc = "retrying"
    /\ rt_pc = "raised"
    /\ "Exception" \in Bases(rt_ret.raised.cls)
    /\ RecordFailure
    /\ svc_records' = Append(svc_records, "failure")
    /\ svc_calls' = Len(rt_log)
    /\ svc_outcome' = rt_ret.raised
    /\ svc_pc' = "dead_letter"
    /\ RetryLeft
    /\ UNCHANGED <<svc_class, svc_op, svc_result, svc_admitted, svc_dlq,
                   dlqVars>>

\* The rest of the except branch: the entry is dead-lettered with str(e) and
\* the degraded result returned.
GuardDeadLetter ==
    /\ svc_pc = "dead_letter"
    /\ Len(dlq_log) < MaxAdds
    /\ add(svc_class, GuardPayload(svc_op))
    /\ svc_dlq' = Append(svc_dlq, [cause |-> "error",
                                   error |-> svc_outcome.msg])
    /\ svc_result' = FailedResult(svc_op, svc_outcome)
    /\ svc_pc' = "idle"
    /\ UNCHANGED <<svc_class, svc_op, svc_admitted, svc_records, svc_calls,
                   svc_outcome, cbVars, rtVars>>

\* Time passes between two invocations: the recovery timeout.
GuardWait ==
    /\ svc_pc = "idle"
    /\ AdvanceClock
    /\ last_failure_age' = recovery_timeout
    /\ UNCHANGED <<svcVars, dlqVars, rtVars>>

\* ------------------------------------------------ guarded operations claims
\* C15: an external call is made only by an invocation whose can_execute
\* has returned true. An invocation can_execute answered false makes no
\* external call and records nothing on the breaker, and it ends having
\* added exactly one dead-letter entry and returning its result: mock data
\* for an enrichment, success false with the error text for a notification.
C15_GuardedByBreaker ==
    /\ (rt_log # <<>> \/ svc_calls > 0 \/ svc_pc \in {"call", "retrying"}) =>
          svc_admitted = "true"
    /\ svc_admitted = "false" =>
          /\ svc_pc \in {"rejected", "idle"}
          /\ rt_log = <<>>
          /\ svc_calls = 0
          /\ svc_records = <<>>
          /\ svc_pc = "rejected" => svc_dlq = <<>>
          /\ svc_pc = "idle" =>
                /\ Len(svc_dlq) = 1
                /\ svc_dlq[1].cause = "circuit open"
                /\ IF svc_op = "send_slack_notification"
                   THEN ~svc_result.success /\ svc_result.error # ""
                   ELSE svc_result.data = "mock"

\* C15 witness: a notification was turned away by its open breaker and
\* returned after dead-lettering once.
C15_Witness ==
    /\ svc_op = "send_slack_notification"
    /\ svc_pc = "idle"
    /\ svc_admitted = "false"
    /\ cb_state = "open"
    /\ Len(svc_dlq) = 1
    /\ ~svc_result.success

\* C16: an admitted invocation records on the breaker exactly once, a
\* success if its retried request returned and a failure if it raised, and
\* only when the request has returned or raised; nothing is recorded or
\* dead-lettered while attempts are going on. An invocation whose
\* max_attempts attempts all failed has recorded one failure and added one
\* dead-letter entry, so a closed breaker stays closed until
\* failure_threshold invocations have failed.
C16_OneRecordPerInvocation ==
    /\ Len(svc_records) <= 1
    /\ svc_pc \in {"check", "rejected", "call", "retrying"} =>
          svc_records = <<>> /\ svc_dlq = <<>>
    /\ svc_records # <<>> =>
          /\ svc_admitted = "true"
          /\ rt_pc = "idle"
          /\ svc_calls >= 1
          /\ svc_records[1] = "success" <=> svc_outcome = NoError
    /\ (svc_admitted = "true" /\ svc_pc \in {"dead_letter", "idle"}) =>
          Len(svc_records) = 1
    /\ (svc_admitted = "true" /\ svc_pc = "idle") =>
          Len(svc_dlq) = IF svc_outcome = NoError THEN 0 ELSE 1
    /\ (svc_pc = "idle" /\ svc_calls = max_attempts /\ svc_outcome # NoError
           /\ Bases(svc_outcome.cls) \cap exceptions # {}) =>
          svc_records = <<"failure">> /\ Len(svc_dlq) = 1
    /\ (failRun # None /\ failRun < failure_threshold) => cb_state = "closed"

\* C16 witness: a breaker of threshold 2 stayed closed through the three
\* failed attempts of an invocation and was opened by its one record_failure,
\* the second in a row.
C16_Witness ==
    /\ svc_pc = "idle"
    /\ svc_calls = 3
    /\ svc_outcome.cls = "HTTPError"
    /\ svc_records = <<"failure">>
    /\ Len(svc_dlq) = 1
    /\ failure_threshold = 2
    /\ failRun = 2
    /\ cb_state = "open"
    /\ prev_state = "closed"

\* C17, as claimed: an error outside the retryable set that a guarded call
\* raises is not retried and no dead-letter entry is made for it; an entry
\* made for an error is for a retryable one that used up max_attempts.
C17_OnlyTransientDeadLettered ==
    /\ (svc_outcome # NoError /\ Bases(svc_outcome.cls) \cap exceptions = {}) =>
          \A i \in 1..Len(svc_dlq) : svc_dlq[i].cause # "error"
    /\ \A i \in 1..Len(svc_dlq) :
          svc_dlq[i].cause = "error" =>
              /\ Bases(svc_outcome.cls) \cap exceptions # {}
              /\ svc_calls = max_attempts

\* ----------------------------------------------------------- PlaybookEngine
\* A string is the sequence of its characters.
UpperCase == <<"A", "B", "C", "D", "E", "F", "G", "H", "I", "J", "K", "L", "M",
               "N", "O", "P", "Q", "R", "S", "T", "U", "V", "W", "X", "Y", "Z">>
LowerCase == <<"a", "b", "c", "d", "e", "f", "g", "h", "i", "j", "k", "l", "m",
               "n", "o", "p", "q", "r", "s", "t", "u", "v", "w", "x", "y", "z">>

\* str.lower()
LowerChar(c) ==
    IF \E i \in 1..26 : UpperCase[i] = c
    THEN LowerCase[CHOOSE i \in 1..26 : UpperCase[i] = c]
    ELSE c

\* str.lower(), mutated: the case is kept.
Lower_CaseKept(str) == str

Lower(str) == [i \in 1..Len(str) |-> LowerChar(str[i])]

\* kw in text
Contains(text, kw) ==
    \E i \in 0..(Len(text) - Len(kw)) : SubSeq(text, i + 1, i + Len(kw)) = kw

AlertStatus == {"pending", "processing", "enriched", "completed", "failed"}

ActionType == {"enrich_ip", "enrich_domain", "enrich_all", "notify_slack",
               "create_ticket", "block_ip", "isolate_host"}

\* severity_order, mutated: the severities in alphabetical order.
severity_order_Alphabetical == <<"critical", "high", "low", "medium">>
\* severity_order in _check_trigger
severity_order == <<"low", "medium", "high", "critical">>

\* list.index: the position of x, 0 when x is not in the list (ValueError)
IndexOf(list, x) ==
    IF \E i \in 1..Len(list) : list[i] = x
    THEN CHOOSE i \in 1..Len(list) : list[i] = x
    ELSE 0

\* An Optional[dict] config: the mapping, empty for None and for {}.
NoConfig == <<>>
Config(key, value) == [k \in {key} |-> value]
ConfigGet(config, key, default) ==
    IF key \in DOMAIN config THEN config[key] ELSE default

\* An Optional[dict] enrichment_data: None, or the keys of the mapping.
NoEnrichment == [none |-> TRUE, keys |-> {}]
Enrichment(keys) == [none |-> FALSE, keys |-> keys]

\* A playbook with the fields the engine reads. An absent (None) condition
\* is the empty string or list, falsy like None.
Playbook(id, enabled, min_severity, source_types, keywords, actions) ==
    [id |-> id, enabled |-> enabled,
     trigger |-> [min_severity |-> min_severity,
                  source_types |-> source_types,
                  keywords |-> keywords],
     actions |-> actions]

Action(type, config) == [type |-> type, config |-> config]

\* _create_default_playbooks
DefaultPlaybooks ==
    << Playbook(1, TRUE, "high", <<>>, <<>>,
           << Action("enrich_all", NoConfig),
              Action("notify_slack", Config("channel", "#security-alerts")) >>),
       Playbook(2, TRUE, "", <<"edr">>, <<>>,
           << Action("enrich_all", NoConfig),
              Action("create_ticket", Config("priority", "high")) >>),
       Playbook(3, TRUE, "", <<>>,
           << <<"m", "a", "l", "w", "a", "r", "e">>,
              <<"r", "a", "n", "s", "o", "m", "w", "a", "r", "e">>,
              <<"t", "r", "o", "j", "a", "n">>,
              <<"v", "i", "r", "u", "s">> >>,
           << Action("enrich_all", NoConfig),
              Action("isolate_host", Config("auto", FALSE)),
              Action("notify_slack", Config("channel", "#incident-response")) >>) >>

\* PlaybookCreate bodies create_playbook is called with: a catch-all playbook
\* with no action, one of single-indicator actions, a disabled one, and one
\* whose min_severity is not a severity.
CreateInputs ==
    { Playbook(0, TRUE, "", <<>>, <<>>, <<>>),
      Playbook(0, TRUE, "low", <<>>, <<>>,
          << Action("enrich_ip", NoConfig),
             Action("block_ip", NoConfig),
             Action("enrich_domain", NoConfig) >>),
      Playbook(0, FALSE, "", <<>>, <<>>,
          << Action("notify_slack", NoConfig) >>),
      Playbook(0, TRUE, "urgent", <<>>, <<>>,
          << Action("create_ticket", NoConfig) >>) }

\* An alert as AlertRepository.create stores it. An indicator is TRUE when
\* the alert carries it.
StoredAlert(title, severity, source, source_ip, destination_ip, domain) ==
    [title |-> title, description |-> <<>>, severity |-> severity,
     source |-> source, source_ip |-> source_ip,
     destination_ip |-> destination_ip, domain |-> domain,
     status |-> "pending", enrichment_data |-> NoEnrichment]

AlertInputs ==
    { StoredAlert(<<"R", "a", "n", "s", "o", "m", "w", "a", "r", "e", " ", "d", "e", "t", "e", "c", "t", "e", "d">>,
                  "critical", "edr", TRUE, FALSE, TRUE),
      StoredAlert(<<"L", "o", "g", "i", "n", " ", "a", "n", "o", "m", "a", "l", "y">>,
                  "high", "firewall", TRUE, TRUE, FALSE),
      StoredAlert(<<"P", "o", "r", "t", " ", "s", "c", "a", "n">>,
                  "low", "siem", FALSE, FALSE, FALSE) }

\* The enrichment service at its interface: an awaited lookup returns, or it
\* raises an error with this text.
ErrorTexts == {"API returned status 500"}
CollaboratorOutcomes == {"ok"} \cup ErrorTexts

PbInit ==
    /\ playbooks = DefaultPlaybooks
    /\ next_id = Len(DefaultPlaybooks) + 1
    /\ db_alert \in AlertInputs
    /\ enrich_flows = 0
    /\ pc = "idle"
    /\ alert = db_alert
    /\ matching = <<>>
    /\ pb_idx = 0
    /\ act_idx = 0
    /\ actions_executed = <<>>
    /\ overall_success = TRUE
    /\ handled = <<>>
    /\ results = <<>>
    /\ pbOp = "init"
    /\ pb_arg = 0
    /\ pb_ret = "none"
    /\ pb_before = <<>>
    /\ pb_deleted = {}

\* _check_trigger, mutated: the source_types test is missing.
check_trigger_AnySource(playbook, a) ==
    LET trigger == playbook.trigger
        min_idx == IndexOf(severity_order, trigger.min_severity)
        alert_idx == IndexOf(severity_order, a.severity)
        text == Lower(a.title \o <<" ">> \o a.description)
    IN  IF ~playbook.enabled THEN "false"
        ELSE IF trigger.min_severity # "" /\ min_idx = 0 THEN "ValueError"
        ELSE IF trigger.min_severity # "" /\ alert_idx < min_idx THEN "false"
        ELSE IF trigger.keywords # <<>>
                /\ ~(\E i \in 1..Len(trigger.keywords) :
                        Contains(text, Lower(trigger.keywords[i])))
             THEN "false"
        ELSE "true"

\* _check_trigger: "true", "false", or "ValueError" when severity_order.index
\* does not find min_severity.
check_trigger(playbook, a) ==
    LET trigger == playbook.trigger
        min_idx == IndexOf(severity_order, trigger.min_severity)
        alert_idx == IndexOf(severity_order, a.severity)
        text == Lower(a.title \o <<" ">> \o a.description)
    IN  IF ~playbook.enabled THEN "false"
        ELSE IF trigger.min_severity # "" /\ min_idx = 0 THEN "ValueError"
        ELSE IF trigger.min_severity # "" /\ alert_idx < min_idx THEN "false"
        ELSE IF trigger.source_types # <<>>
                /\ ~(\E i \in 1..Len(trigger.source_types) :
                        trigger.source_types[i] = a.source)
             THEN "false"
        ELSE IF trigger.keywords # <<>>
                /\ ~(\E i \in 1..Len(trigger.keywords) :
                        Contains(text, Lower(trigger.keywords[i])))
             THEN "false"
        ELSE "true"

\* find_matching_playbooks: the registry's playbooks whose trigger matches,
\* in registry order.
MatchingIn(registry, a) ==
    SelectSeq(registry, LAMBDA pb : check_trigger(pb, a) = "true")

find_matching_playbooks(a) == MatchingIn(playbooks, a)

FindMatchingRaises(a) ==
    \E i \in 1..Len(playbooks) : check_trigger(playbooks[i], a) = "ValueError"

\* enrich_alert: the keys it returns, one per indicator the alert carries.
IndicatorKeys(a) ==
    {k \in {"source_ip", "destination_ip", "domain"} : a[k]}

\* Does this action reach an enrichment lookup? enrich_alert makes one per
\* indicator the alert carries.
AwaitsCollaborator(action, a) ==
    \/ action.type = "enrich_all" /\ IndicatorKeys(a) # {}
    \/ action.type = "enrich_ip" /\ a.source_ip
    \/ action.type = "enrich_domain" /\ a.domain

\* The try body of _execute_action when nothing raises: the message and the
\* alert's enrichment_data afterwards.
Handler(action, a) ==
    LET type == action.type
        config == action.config
        data == a.enrichment_data
    IN  IF type = "enrich_all"
        THEN [message |-> <<"Enriched", Cardinality(IndicatorKeys(a)), "indicators">>,
              enrichment_data |-> Enrichment(IndicatorKeys(a))]
        ELSE IF type = "enrich_ip"
        THEN IF a.source_ip
             THEN [message |-> <<"Enriched IP">>,
                   enrichment_data |-> Enrichment(data.keys \cup {"source_ip"})]
             ELSE [message |-> <<"No source IP to enrich">>,
                   enrichment_data |-> data]
        ELSE IF type = "enrich_domain"
        THEN IF a.domain
             THEN [message |-> <<"Enriched domain">>,
                   enrichment_data |-> Enrichment(data.keys \cup {"domain"})]
             ELSE [message |-> <<"No domain to enrich">>,
                   enrichment_data |-> data]
        ELSE IF type = "notify_slack"
        THEN [message |-> <<"Slack notification sent to",
                            ConfigGet(config, "channel", "#alerts")>>,
              enrichment_data |-> data]
        ELSE IF type = "create_ticket"
        THEN [message |-> <<"Ticket created with",
                            ConfigGet(config, "priority", "medium"), "priority">>,
              enrichment_data |-> data]
        ELSE IF type = "block_ip"
        THEN [message |-> IF a.source_ip THEN <<"IP blocked at firewall">>
                          ELSE <<"No IP to block">>,
              enrichment_data |-> data]
        ELSE [message |-> IF ConfigGet(config, "auto", FALSE)
                          THEN <<"Host isolation initiated">>
                          ELSE <<"Host isolation recommended (manual approval required)">>,
              enrichment_data |-> data]

\* _execute_action, mutated: no except clause.
CatchesNothing(error) == FALSE
\* _execute_action: "except Exception" catches every error a handler raises.
Catches(error) == TRUE

\* _execute_action with the collaborator's outcome: the result dict, the
\* alert's enrichment_data afterwards (an assignment after the raising await
\* does not happen), and the error that leaves the function, if any.
execute_action(action, a, outcome) ==
    IF AwaitsCollaborator(action, a) /\ outcome # "ok"
    THEN IF Catches(outcome)
         THEN [result |-> [action |-> action.type, success |-> FALSE,
                           message |-> <<outcome>>],
               enrichment_data |-> a.enrichment_data,
               raised |-> "none"]
         ELSE [result |-> [action |-> action.type, success |-> TRUE,
                           message |-> <<>>],
               enrichment_data |-> a.enrichment_data,
               raised |-> outcome]
    ELSE [result |-> [action |-> action.type, success |-> TRUE,
                      message |-> Handler(action, a).message],
          enrichment_data |-> Handler(action, a).enrichment_data,
          raised |-> "none"]

\* run_playbooks_for_alert, mutated: each playbook is given a fresh copy of
\* the stored alert.
CarriedAlertReloaded(a, stored) == stored
\* run_playbooks_for_alert: "await self.execute_playbook(playbook, alert)"
\* hands every matching playbook the one Alert object of the run.
CarriedAlert(a, stored) == a

\* execute_playbook, mutated: the status is left as it is at the start.
StatusAtStartKept(old) == old
\* execute_playbook: alert.status = AlertStatus.PROCESSING
StatusAtStart(old) == "processing"

\* execute_playbook, mutated: the flag follows the last action only.
OverallAfterLastOnly(overall, success) == success
\* execute_playbook: "if not action_result['success']: overall_success = False"
OverallAfter(overall, success) == IF ~success THEN FALSE ELSE overall

\* execute_playbook, mutated: the final status is COMPLETED whatever the flag.
StatusAtEnd_Completed(overall) == "completed"
\* execute_playbook: COMPLETED if overall_success else FAILED
StatusAtEnd(overall) == IF overall THEN "completed" ELSE "failed"

\* Any call but delete_playbook leaves no delete_playbook result behind.
NotDelete ==
    /\ pb_arg' = 0
    /\ pb_ret' = "none"
    /\ pb_before' = <<>>
    /\ UNCHANGED pb_deleted

\* self.playbooks[playbook_id] = playbook, mutated: the new playbook goes to
\* the front.
RegisteredFirst(registry, playbook) == <<playbook>> \o registry

\* self.playbooks[playbook_id] = playbook with a fresh key: the dict keeps
\* insertion order, so the new playbook is its last value.
Registered(registry, playbook) == Append(registry, playbook)

\* del self.playbooks[playbook_id]
Without(registry, playbook_id) ==
    SelectSeq(registry, LAMBDA pb : pb.id # playbook_id)

\* playbook_id in self.playbooks
RegisteredIds == { playbooks[i].id : i \in 1..Len(playbooks) }

\* get_playbook: the playbook under that id as a one-element sequence, the
\* empty sequence for None.
get_playbook(playbook_id) ==
    SelectSeq(playbooks, LAMBDA pb : pb.id = playbook_id)

\* list_playbooks
list_playbooks == playbooks

\* create_playbook: the playbook is stored under a fresh uuid4.
CreatePlaybook ==
    /\ pc = "idle"
    /\ next_id < Len(DefaultPlaybooks) + 1 + MaxCreated
    /\ \E data \in CreateInputs :
          playbooks' = Registered(playbooks, [data EXCEPT !.id = next_id])
    /\ next_id' = next_id + 1
    /\ pbOp' = "create_playbook"
    /\ NotDelete
    /\ UNCHANGED <<db_alert, enrich_flows, pc, alert, matching, pb_idx,
                   act_idx, actions_executed, overall_success, handled, results>>

\* delete_playbook of an id: one in the registry, one deleted before, or one
\* never given out (0 and next_id).
DeletePlaybook ==
    /\ pc = "idle"
    /\ \E playbook_id \in 0..next_id :
          /\ pb_arg' = playbook_id
          /\ pb_before' = playbooks
          /\ IF playbook_id \in RegisteredIds
             THEN /\ playbooks' = Without(playbooks, playbook_id)
                  /\ pb_deleted' = pb_deleted \cup {playbook_id}
                  /\ pb_ret' = "true"
             ELSE /\ UNCHANGED <<playbooks, pb_deleted>>
                  /\ pb_ret' = "false"
    /\ pbOp' = "delete_playbook"
    /\ UNCHANGED <<next_id, db_alert, enrich_flows, pc, alert, matching, pb_idx,
                   act_idx, actions_executed, overall_success, handled, results>>

\* run_playbooks_for_alert's loop, mutated: the body is entered whatever the
\* list holds.
LoopEntry_Always(found) == "execute"

\* run_playbooks_for_alert's loop over the matching playbooks: entered when
\* there is one, else the function returns its empty results.
LoopEntry(found) == IF found = <<>> THEN "return" ELSE "execute"

\* POST /alerts/{id}/run-playbooks: what the endpoint answers with the
\* engine's results.
RunPlaybooksResponse(res) == IF res = <<>> THEN "404" ELSE "200"

\* find_matching_playbooks called on the stored alert; a ValueError of
\* _check_trigger leaves it.
FindMatching ==
    /\ pc = "idle"
    /\ IF FindMatchingRaises(db_alert)
       THEN /\ matching' = <<>>
            /\ pbOp' = "find_raised"
            /\ NotDelete
       ELSE /\ matching' = find_matching_playbooks(db_alert)
            /\ pbOp' = "find_matching"
            /\ NotDelete
    /\ UNCHANGED <<playbooks, next_id, db_alert, enrich_flows, pc, alert, pb_idx,
                   act_idx, actions_executed, overall_success, handled, results>>

\* POST /alerts/{id}/run-playbooks up to the first execute_playbook: the
\* alert is loaded from the store and the matching playbooks are listed.
RunStart ==
    /\ pc = "idle"
    /\ alert' = db_alert
    /\ results' = <<>>
    /\ IF FindMatchingRaises(db_alert)
       THEN /\ matching' = <<>>
            /\ pb_idx' = 0
            /\ pc' = "idle"
            /\ pbOp' = "run_raised"
            /\ NotDelete
       ELSE /\ matching' = find_matching_playbooks(db_alert)
            /\ pb_idx' = 1
            /\ pc' = LoopEntry(matching')
            /\ pbOp' = "run_start"
            /\ NotDelete
    /\ act_idx' = 0
    /\ actions_executed' = <<>>
    /\ overall_success' = TRUE
    /\ handled' = <<>>
    /\ UNCHANGED <<playbooks, next_id, db_alert, enrich_flows>>

\* execute_playbook up to its loop.
PbBegin ==
    /\ pc = "execute"
    /\ actions_executed' = <<>>
    /\ overall_success' = TRUE
    /\ alert' = [CarriedAlert(alert, db_alert) EXCEPT
                     !.status = StatusAtStart(alert.status)]
    /\ act_idx' = 1
    /\ handled' = <<>>
    /\ pc' = "action"
    /\ pbOp' = "pb_begin"
    /\ NotDelete
    /\ UNCHANGED <<playbooks, next_id, db_alert, enrich_flows, matching,
                   pb_idx, results>>

\* One turn of execute_playbook's loop: the action is executed and its result
\* appended. An error that leaves _execute_action leaves the run.
PbAction ==
    /\ pc = "action"
    /\ act_idx <= Len(matching[pb_idx].actions)
    /\ \E outcome \in CollaboratorOutcomes :
          LET action == matching[pb_idx].actions[act_idx]
              done == execute_action(action, alert, outcome)
          IN  /\ AwaitsCollaborator(action, alert) \/ outcome = "ok"
              /\ handled' = Append(handled, [type |-> action.type,
                     outcome |-> IF AwaitsCollaborator(action, alert)
                                 THEN outcome ELSE "ok"])
              /\ alert' = [alert EXCEPT !.enrichment_data = done.enrichment_data]
              /\ IF done.raised # "none"
                 THEN /\ pc' = "raised"
                      /\ UNCHANGED <<actions_executed, overall_success, act_idx>>
                 ELSE /\ actions_executed' = Append(actions_executed, done.result)
                      /\ overall_success' =
                             OverallAfter(overall_success, done.result.success)
                      /\ act_idx' = act_idx + 1
                      /\ pc' = "action"
    /\ pbOp' = "pb_action"
    /\ NotDelete
    /\ UNCHANGED <<playbooks, next_id, db_alert, enrich_flows, matching,
                   pb_idx, results>>

\* execute_playbook after its loop, and run_playbooks_for_alert's append.
PbEnd ==
    /\ pc = "action"
    /\ act_idx > Len(matching[pb_idx].actions)
    /\ alert' = [alert EXCEPT !.status = StatusAtEnd(overall_success)]
    /\ results' = Append(results, [playbook_id |-> matching[pb_idx].id,
                                   success |-> overall_success,
                                   actions_executed |-> actions_executed])
    /\ IF pb_idx < Len(matching)
       THEN pb_idx' = pb_idx + 1 /\ pc' = "execute"
       ELSE pb_idx' = pb_idx /\ pc' = "return"
    /\ pbOp' = "pb_end"
    /\ NotDelete
    /\ UNCHANGED <<playbooks, next_id, db_alert, enrich_flows, matching,
                   act_idx, actions_executed, overall_success, handled>>

\* run_playbooks_for_alert returns, or the error that left it reaches the
\* caller; the run's objects are dropped.
RunReturn ==
    /\ pc \in {"return", "raised"}
    /\ pc' = "idle"
    /\ alert' = db_alert
    /\ matching' = <<>>
    /\ pb_idx' = 0
    /\ act_idx' = 0
    /\ actions_executed' = <<>>
    /\ overall_success' = TRUE
    /\ handled' = <<>>
    /\ results' = <<>>
    /\ pbOp' = "run_return"
    /\ NotDelete
    /\ UNCHANGED <<playbooks, next_id, db_alert, enrich_flows>>

\* POST /alerts/{id}/enrich up to the enrichment: update_status(PROCESSING).
EnrichBegin ==
    /\ enrich_flows < MaxEnrichFlows
    /\ db_alert' = [db_alert EXCEPT !.status = "processing"]
    /\ enrich_flows' = enrich_flows + 1
    /\ pbOp' = "enrich_begin"
    /\ NotDelete
    /\ UNCHANGED <<playbooks, next_id, pc, alert, matching, pb_idx, act_idx,
                   actions_executed, overall_success, handled, results>>

\* enrich_ip and enrich_domain, mutated: no except clause around the lookup.
FallsBack_Never(error) == FALSE
\* enrich_ip and enrich_domain: "except Exception" turns every error of the
\* threat-intelligence lookup into a result with mock data and the error text.
FallsBack(error) == TRUE

\* The rest of it: enrich_alert returns one entry per indicator, from the
\* lookup or from the fallback, and update_enrichment stores the mapping with
\* status ENRICHED; an error that left enrich_alert would end the request
\* there.
EnrichEnd ==
    /\ enrich_flows > 0
    /\ \E outcome \in CollaboratorOutcomes :
          IF outcome = "ok" \/ IndicatorKeys(db_alert) = {}
          THEN /\ db_alert' = [db_alert EXCEPT
                      !.status = "enriched",
                      !.enrichment_data = Enrichment(IndicatorKeys(db_alert))]
               /\ pbOp' = "enrich_end"
          ELSE IF FallsBack(outcome)
          THEN /\ db_alert' = [db_alert EXCEPT
                      !.status = "enriched",
                      !.enrichment_data = Enrichment(IndicatorKeys(db_alert))]
               /\ pbOp' = "enrich_fallback"
          ELSE /\ UNCHANGED db_alert
               /\ pbOp' = "enrich_raised"
    /\ enrich_flows' = enrich_flows - 1
    /\ NotDelete
    /\ UNCHANGED <<playbooks, next_id, pc, alert, matching, pb_idx, act_idx,
                   actions_executed, overall_success, handled, results>>

\* POST /alerts/{id}/enrich with an id the store does not hold: get_by_id
\* returns None and the endpoint raises 404 before it writes anything.
EnrichUnknown ==
    /\ pbOp' = "enrich_not_found"
    /\ NotDelete
    /\ UNCHANGED <<playbooks, next_id, db_alert, enrich_flows, pc, alert,
                   matching, pb_idx, act_idx, actions_executed,
                   overall_success, handled, results>>

\* ---------------------------------------------------- PlaybookEngine claims

\* The first n actions of a playbook were each handled once, in list order,
\* and each left its outcome: a failed one with the error text as message.
OutcomesFollow(playbook, executed, calls, n) ==
    /\ Len(executed) = n
    /\ Len(calls) = n
    /\ \A i \in 1..n :
          /\ calls[i].type = playbook.actions[i].type
          /\ executed[i].action = playbook.actions[i].type
          /\ executed[i].success = (calls[i].outcome = "ok")
          /\ calls[i].outcome # "ok" => executed[i].message = <<calls[i].outcome>>

\* C8: execute_playbook runs every action of the playbook once and in list
\* order whatever the earlier ones did; an error raised in a handler becomes
\* an outcome with success false and the error text as message and never
\* leaves execute_playbook; actions_executed has one outcome per action, in
\* the order of the action list.
C8_EveryActionReports ==
    /\ pc # "raised"
    /\ pc = "action" =>
          OutcomesFollow(matching[pb_idx], actions_executed, handled, act_idx - 1)
    /\ pbOp = "pb_end" =>
          OutcomesFollow(matching[Len(results)],
                         results[Len(results)].actions_executed, handled,
                         Len(matching[Len(results)].actions))
    /\ \A k \in 1..Len(results) :
          /\ results[k].playbook_id = matching[k].id
          /\ Len(results[k].actions_executed) = Len(matching[k].actions)
          /\ \A i \in 1..Len(matching[k].actions) :
                results[k].actions_executed[i].action = matching[k].actions[i].type

\* C8 witness: a playbook of three actions has returned; its first action
\* failed and the two after it ran and succeeded.
C8_Witness ==
    /\ pbOp = "pb_end"
    /\ Len(handled) = 3
    /\ handled[1].outcome # "ok"
    /\ LET executed == results[Len(results)].actions_executed
       IN  /\ Len(executed) = 3
           /\ ~executed[1].success
           /\ executed[2].success
           /\ executed[3].success

\* C9: a result's success flag is the AND of its outcomes' success flags
\* (true for no action), and when execute_playbook has returned the alert is
\* completed if the flag is true and failed otherwise.
C9_SuccessIsConjunction ==
    /\ \A k \in 1..Len(results) :
          results[k].success =
              (\A i \in 1..Len(results[k].actions_executed) :
                   results[k].actions_executed[i].success)
    /\ pbOp = "pb_end" =>
          alert.status = IF results[Len(results)].success
                         THEN "completed" ELSE "failed"

\* C9 witness: a playbook returned failed although its last action succeeded.
C9_Witness ==
    /\ pbOp = "pb_end"
    /\ alert.status = "failed"
    /\ LET r == results[Len(results)]
       IN  /\ ~r.success
           /\ Len(r.actions_executed) > 1
           /\ r.actions_executed[Len(r.actions_executed)].success

\* The steps in which the engine writes the status of the run's alert.
EngineStep == pbOp' \in {"pb_begin", "pb_action", "pb_end"}

\* The status changes C10 lists.
ClaimedChange(old, new) ==
    <<old, new>> \in {<<"pending", "processing">>,
                      <<"processing", "enriched">>,
                      <<"processing", "completed">>,
                      <<"processing", "failed">>}

\* C10, as claimed: every status change is one of pending->processing,
\* processing->enriched, processing->completed, processing->failed, in a run
\* of any number of matching playbooks and in the enrich operation.
C10_StatusMachine ==
    [][/\ (EngineStep /\ alert'.status # alert.status) =>
              ClaimedChange(alert.status, alert'.status)
       /\ db_alert'.status # db_alert.status =>
              ClaimedChange(db_alert.status, db_alert'.status)]_vars

\* A move to processing from any status, or out of processing to a final one.
ThroughProcessing(old, new) ==
    \/ new = "processing"
    \/ old = "processing" /\ new \in {"enriched", "completed", "failed"}

\* C10, amended: every status change is a move to processing (from pending,
\* or from enriched, completed or failed when another playbook or operation
\* starts on the alert) or one of processing->enriched,
\* processing->completed, processing->failed.
C10_StatusThroughProcessing ==
    [][/\ (EngineStep /\ alert'.status # alert.status) =>
              ThroughProcessing(alert.status, alert'.status)
       /\ db_alert'.status # db_alert.status =>
              ThroughProcessing(db_alert.status, db_alert'.status)]_vars

\* C10 witness: the second matching playbook of a run has started after the
\* first one left the alert completed.
C10_Witness ==
    /\ pbOp = "pb_begin"
    /\ pb_idx = 2
    /\ Len(results) = 1
    /\ results[1].success
    /\ alert.status = "processing"

\* C11: within one run the playbooks execute one at a time in match order
\* and the actions of each one at a time in list order: an action starts
\* only when the outcomes of all the actions before it are recorded, a
\* playbook starts only when the results of all the playbooks before it are
\* appended, and it starts on the alert as the playbook before it left it:
\* the status that playbook set at its end and the enrichment mapping
\* unchanged.
C11_SequentialCarryForward ==
    [][/\ pbOp' = "pb_action" =>
              /\ Len(actions_executed) = act_idx - 1
              /\ Len(handled) = act_idx - 1
              /\ handled'[act_idx].type = matching[pb_idx].actions[act_idx].type
              /\ pb_idx' = pb_idx
       /\ pbOp' = "pb_begin" =>
              /\ Len(results) = pb_idx - 1
              /\ \A k \in 1..Len(results) :
                     results[k].playbook_id = matching[k].id
              /\ alert'.enrichment_data = alert.enrichment_data
              /\ pb_idx > 1 =>
                     alert.status = StatusAtEnd(results[pb_idx - 1].success)
       /\ pbOp' = "pb_end" =>
              /\ alert'.enrichment_data = alert.enrichment_data
              /\ pb_idx' \in {pb_idx, pb_idx + 1}]_vars

\* C11 witness: the second matching playbook of a run has started on an
\* alert that carries the enrichment the first one put on it, which the
\* stored alert does not have.
C11_Witness ==
    /\ pbOp = "pb_begin"
    /\ pb_idx = 2
    /\ ~alert.enrichment_data.none
    /\ alert.enrichment_data # db_alert.enrichment_data

\* ----------------------------------------------------------- _execute_action
\* Alert objects _execute_action is called on: any subset of the three
\* indicators, and an enrichment mapping that is None, empty, or holds an
\* entry no action of the engine writes.
ActionAlerts ==
    { [StoredAlert(<<"P", "o", "r", "t", " ", "s", "c", "a", "n">>, "high",
                   "siem", ip, dst, dom) EXCEPT !.enrichment_data = data] :
        ip \in BOOLEAN, dst \in BOOLEAN, dom \in BOOLEAN,
        data \in {NoEnrichment, Enrichment({}), Enrichment({"file_hash"})} }

\* The action configurations: None, and one with each key a handler reads.
ActionConfigs ==
    {NoConfig, Config("channel", "#soc"), Config("priority", "high"),
     Config("auto", TRUE)}

EaInit ==
    /\ ea_alert \in ActionAlerts
    /\ ea_action \in {Action(type, config) :
                         type \in ActionType, config \in ActionConfigs}
    /\ ea_collab \in CollaboratorOutcomes
    /\ ea_delivers \in BOOLEAN
    /\ ea_before = NoEnrichment
    /\ ea_result = [action |-> "none", success |-> TRUE, message |-> <<>>]
    /\ ea_pc = "called"
    /\ ea_todo = <<>>

\* _execute_action runs: its result, and the alert's mapping afterwards.
EaExecute ==
    /\ ea_pc = "called"
    /\ ea_collab = "ok" \/ AwaitsCollaborator(ea_action, ea_alert)
    /\ LET done == execute_action(ea_action, ea_alert, ea_collab)
       IN  /\ ea_result' = done.result
           /\ ea_alert' = [ea_alert EXCEPT !.enrichment_data = done.enrichment_data]
    /\ ea_before' = ea_alert.enrichment_data
    /\ ea_pc' = "returned"
    /\ UNCHANGED <<ea_action, ea_collab, ea_delivers, ea_todo>>

\* The next action is called on the same alert; the collaborators may have
\* changed their behaviour.
EaCall ==
    /\ ea_pc = "returned"
    /\ ea_action' \in {Action(type, config) :
                          type \in ActionType, config \in ActionConfigs}
    /\ ea_collab' \in CollaboratorOutcomes
    /\ ea_delivers' \in BOOLEAN
    /\ ea_pc' = "called"
    /\ UNCHANGED <<ea_alert, ea_before, ea_result, ea_todo>>

\* ---------------------------------------------------- _execute_action claims
\* C18, as claimed: a notify action that has run names the channel of its
\* config (the default channel without one) and has success true exactly
\* when the notification collaborator delivers; success is false when
\* delivery fails or the notification circuit is open.
C18_NotifyReflectsDelivery ==
    (ea_pc = "returned" /\ ea_action.type = "notify_slack") =>
        /\ ea_result.message[2] = IF "channel" \in DOMAIN ea_action.config
                                  THEN ea_action.config["channel"]
                                  ELSE "#alerts"
        /\ ea_result.success = ea_delivers

\* C19, as claimed: after an enrich-all action has run the mapping has an
\* entry for every indicator the alert carries and still has every entry it
\* had before that the action did not enrich again; the action succeeds
\* whatever indicators are absent, its message giving the number enriched.
C19_EnrichAllMerges ==
    (ea_pc = "returned" /\ ea_action.type = "enrich_all" /\ ea_collab = "ok") =>
        /\ ea_result.success
        /\ ea_result.message[2] = Cardinality(IndicatorKeys(ea_alert))
        /\ ~ea_alert.enrichment_data.none
        /\ IndicatorKeys(ea_alert) \subseteq ea_alert.enrichment_data.keys
        /\ ea_before.keys \ IndicatorKeys(ea_alert)
              \subseteq ea_alert.enrichment_data.keys

\* ------------------------------------------------------------ _check_trigger
\* Triggers of every shape, and alerts of every severity.
TriggerInputs ==
    { Playbook(1, enabled, min_severity, source_types, keywords, <<>>) :
        enabled \in BOOLEAN,
        min_severity \in {"", "low", "medium", "high", "critical", "urgent"},
        source_types \in {<<>>, <<"edr">>},
        keywords \in {<<>>, << <<"S", "c", "a", "n">> >>} }

TriggerAlerts ==
    { [StoredAlert(title, severity, source, FALSE, FALSE, FALSE)
          EXCEPT !.description = description] :
        title \in { <<"P", "o", "r", "t", " ", "s", "c", "a", "n">>,
                    <<"L", "o", "g", "i", "n">> },
        description \in { <<>>, <<"S", "C", "A", "N", "S">> },
        severity \in {"low", "medium", "high", "critical"},
        source \in {"edr", "siem"} }

CtInit ==
    /\ ct_playbook \in TriggerInputs
    /\ ct_alert \in TriggerAlerts
    /\ ct_ret = "none"
    /\ ct_found = <<>>

\* _check_trigger(playbook, alert) is called.
CtCheck ==
    /\ ct_ret = "none"
    /\ ct_ret' = check_trigger(ct_playbook, ct_alert)
    /\ ct_found' = IF ct_ret' = "ValueError" THEN <<>>
                   ELSE MatchingIn(<<ct_playbook>>, ct_alert)
    /\ UNCHANGED <<ct_playbook, ct_alert>>

\* The next pair is checked.
CtAgain ==
    /\ ct_ret # "none"
    /\ ct_playbook' \in TriggerInputs
    /\ ct_alert' \in TriggerAlerts
    /\ ct_ret' = "none"
    /\ ct_found' = <<>>

\* ----------------------------------------------------- _check_trigger claims
\* The ordinal of a severity in low < medium < high < critical.
Ordinal(severity) ==
    CASE severity = "low" -> 0
      [] severity = "medium" -> 1
      [] severity = "high" -> 2
      [] severity = "critical" -> 3

\* C20: an enabled playbook whose trigger sets only min_severity = X, X one
\* of the four severities, matches an alert of severity Y exactly when
\* ordinal(Y) >= ordinal(X).
C20_MinSeverityOrdinal ==
    (/\ ct_ret # "none"
     /\ ct_playbook.enabled
     /\ ct_playbook.trigger.min_severity \in {"low", "medium", "high", "critical"}
     /\ ct_playbook.trigger.source_types = <<>>
     /\ ct_playbook.trigger.keywords = <<>>) =>
        /\ ct_ret \in {"true", "false"}
        /\ ct_ret = "true" <=>
              Ordinal(ct_alert.severity) >= Ordinal(ct_playbook.trigger.min_severity)

\* C20 witness: a playbook asking for medium has matched a critical alert.
C20_Witness ==
    /\ ct_ret = "true"
    /\ ct_playbook.enabled
    /\ ct_playbook.trigger.min_severity = "medium"
    /\ ct_playbook.trigger.source_types = <<>>
    /\ ct_playbook.trigger.keywords = <<>>
    /\ ct_alert.severity = "critical"

\* The severities of low < medium < high < critical.
Severities == {"low", "medium", "high", "critical"}

\* Some keyword of the list is a substring of the text, whatever the case of
\* either.
SomeKeywordIn(keywords, text) ==
    \E i \in 1..Len(keywords) : Contains(Lower(text), Lower(keywords[i]))

\* The match C21 describes, for a trigger whose min_severity is absent or a
\* severity. An absent condition is None or empty.
Matches(playbook, a) ==
    /\ playbook.enabled
    /\ \/ playbook.trigger.min_severity = ""
       \/ Ordinal(a.severity) >= Ordinal(playbook.trigger.min_severity)
    /\ \/ playbook.trigger.source_types = <<>>
       \/ \E i \in 1..Len(playbook.trigger.source_types) :
             playbook.trigger.source_types[i] = a.source
    /\ \/ playbook.trigger.keywords = <<>>
       \/ SomeKeywordIn(playbook.trigger.keywords,
                        a.title \o <<" ">> \o a.description)

\* C21: for a trigger whose min_severity is absent or one of the four
\* severities, _check_trigger returns true exactly when the playbook is
\* enabled and each condition that is present holds: severity at or above
\* the threshold, source among the source types, some keyword a
\* case-insensitive substring of title and description. A disabled playbook
\* gets false and is not in what find_matching_playbooks returns. The check
\* changes neither the playbook, the alert nor the registry.
C21_TriggerIsConjunction ==
    [][ct_ret' # ct_ret /\ ct_ret' # "none" =>
          /\ ct_playbook' = ct_playbook
          /\ ct_alert' = ct_alert
          /\ playbooks' = playbooks
          /\ ~ct_playbook.enabled => (ct_ret' = "false" /\ ct_found' = <<>>)
          /\ ct_playbook.trigger.min_severity \in Severities \cup {""} =>
                /\ ct_ret' \in {"true", "false"}
                /\ ct_ret' = "true" <=> Matches(ct_playbook, ct_alert)
                /\ ct_found' = IF Matches(ct_playbook, ct_alert)
                               THEN <<ct_playbook>> ELSE <<>>]_vars

\* C21 witness: a playbook with all three conditions has matched an alert
\* whose description holds its keyword in another case; the title does not.
C21_Witness ==
    /\ ct_ret = "true"
    /\ ct_found = <<ct_playbook>>
    /\ ct_playbook.trigger.min_severity = "high"
    /\ ct_playbook.trigger.source_types # <<>>
    /\ ct_playbook.trigger.keywords # <<>>
    /\ ~SomeKeywordIn(ct_playbook.trigger.keywords, ct_alert.title)
    /\ ct_alert.description # <<>>

\* The ids of a sequence of playbooks ascend: ids are given out in the order
\* of registration, so the sequence is in registration order, each playbook
\* once.
InRegistrationOrder(pbs) ==
    \A i, j \in 1..Len(pbs) : i < j => pbs[i].id < pbs[j].id

\* What the registry and its three views show: list_playbooks and
\* get_playbook in every state, find_matching_playbooks when it has returned.
RegistryViews ==
    /\ InRegistrationOrder(list_playbooks)
    /\ RegisteredIds = (1..(next_id - 1)) \ pb_deleted
    /\ pbOp = "find_matching" =>
          /\ InRegistrationOrder(matching)
          /\ { matching[i] : i \in 1..Len(matching) }
               = { pb \in { playbooks[i] : i \in 1..Len(playbooks) } :
                      Matches(pb, db_alert) }
          /\ \A i \in 1..Len(matching) : matching[i].id \notin pb_deleted
    /\ \A playbook_id \in pb_deleted :
          /\ get_playbook(playbook_id) = <<>>
          /\ \A i \in 1..Len(list_playbooks) :
                list_playbooks[i].id # playbook_id

\* What the last delete_playbook call did to the registry it found.
DeleteAnswers ==
    pbOp = "delete_playbook" =>
       /\ pb_ret = "true" <=> \E i \in 1..Len(pb_before) : pb_before[i].id = pb_arg
       /\ pb_ret = "false" => playbooks = pb_before
       /\ pb_ret = "true" =>
             /\ pb_arg \in pb_deleted
             /\ playbooks = SelectSeq(pb_before, LAMBDA pb : pb.id # pb_arg)

\* C22: after any create_playbook and delete_playbook calls,
\* find_matching_playbooks returns exactly the registered playbooks that match
\* the alert, each once, in registration order; a playbook delete_playbook
\* returned true for is returned by neither get_playbook, list_playbooks nor
\* find_matching_playbooks; delete_playbook of an unknown id returns false and
\* leaves the registry as it was.
C22_RegistryInOrder == RegistryViews /\ DeleteAnswers

\* C22 witness: a playbook was created, a default one deleted, and
\* find_matching_playbooks has returned two playbooks, the created one last.
C22_Witness ==
    /\ pbOp = "find_matching"
    /\ pb_deleted # {}
    /\ pb_deleted \subseteq 1..Len(DefaultPlaybooks)
    /\ Len(matching) >= 2
    /\ matching[Len(matching)].id > Len(DefaultPlaybooks)

\* The alert of C23.
IsRansomwareAlert(a) ==
    /\ a.title = <<"R", "a", "n", "s", "o", "m", "w", "a", "r", "e", " ",
                   "d", "e", "t", "e", "c", "t", "e", "d">>
    /\ a.severity = "critical"
    /\ a.source = "edr"

\* C23: with only the three default playbooks registered, a run on the alert
\* {critical, edr, "Ransomware detected"} goes through the three in
\* registration order and returns three results, with 2, 2 and 3 action
\* outcomes; a playbook whose collaborators all succeeded gets success true.
C23_DefaultsOnRansomware ==
    (/\ playbooks = DefaultPlaybooks
     /\ IsRansomwareAlert(alert)
     /\ pc \in {"execute", "action", "return"}) =>
       /\ [i \in 1..Len(matching) |-> matching[i].id] = <<1, 2, 3>>
       /\ pbOp = "pb_end" =>
             LET r == results[Len(results)]
             IN  /\ r.playbook_id = matching[Len(results)].id
                 /\ Len(r.actions_executed) = Len(matching[Len(results)].actions)
                 /\ (\A k \in 1..Len(handled) : handled[k].outcome = "ok")
                       => r.success
       /\ pc = "return" =>
             /\ [i \in 1..Len(results) |-> results[i].playbook_id] = <<1, 2, 3>>
             /\ [i \in 1..Len(results) |-> Len(results[i].actions_executed)]
                   = <<2, 2, 3>>

\* C23 witness: the run on that alert is about to return three results, each
\* with success true.
C23_Witness ==
    /\ playbooks = DefaultPlaybooks
    /\ IsRansomwareAlert(alert)
    /\ pc = "return"
    /\ Len(results) = Len(DefaultPlaybooks)
    /\ \A i \in 1..Len(results) : results[i].success

\* C24: when no registered playbook matches, run_playbooks_for_alert returns
\* an empty list without raising: no action is executed, no collaborator
\* called, and the alert, the stored alert, the breakers and the queue are as
\* before; only the endpoint turns the empty list into not-found.
C24_NoMatchIsEmpty ==
    [][/\ (pc = "idle" /\ pbOp' = "run_start" /\ matching' = <<>>) =>
            /\ pc' = "return"
            /\ results' = <<>>
            /\ handled' = <<>>
            /\ actions_executed' = <<>>
            /\ alert' = db_alert
            /\ UNCHANGED <<db_alert, cbVars, dlqVars, svcVars>>
       /\ (pc = "return" /\ matching = <<>> /\ pc' = "idle") =>
            /\ results = <<>>
            /\ RunPlaybooksResponse(results) = "404"
            /\ pbOp' = "run_return"
            /\ UNCHANGED <<db_alert, cbVars, dlqVars, svcVars>>]_vars

\* C24 witness: a run on an enriched alert that no playbook matches is about
\* to return its empty list; the alert is still enriched.
C24_Witness ==
    /\ pc = "return"
    /\ matching = <<>>
    /\ results = <<>>
    /\ playbooks # <<>>
    /\ alert.status = "enriched"
    /\ alert.enrichment_data # NoEnrichment

\* ---------------------------------------------------------- concurrent flows
\* Flows call the methods of one breaker and one queue. A method is
\* `async with self._lock:` around its body; between any two statements of a
\* flow any other flow may run. record_failure and add are followed statement
\* by statement (the read of the counter or the list, then the writes), the
\* other methods run their body in one step once they hold the lock.
FlowIds == 1..MaxFlows

BreakerMethods == {"can_execute", "record_success", "record_failure"}
QueueMethods == {"add", "remove", "clear"}

FlowsIdle ==
    /\ fl_pc = [f \in FlowIds |-> "idle"]
    /\ fl_op = [f \in FlowIds |-> "none"]
    /\ fl_arg = [f \in FlowIds |-> "a"]
    /\ fl_count = [f \in FlowIds |-> 0]
    /\ fl_queue = [f \in FlowIds |-> <<>>]
    /\ cb_lock = 0
    /\ dlq_lock = 0
    /\ fl_started = 0
    /\ fl_fails = 0
    /\ fl_adds = 0
    /\ fl_kinds = {}
    /\ fl_admitted = [f \in FlowIds |-> FALSE]

\* asyncio.Lock.acquire, mutated: it never waits.
LockFree_Always(holder) == TRUE

\* asyncio.Lock.acquire returns once the lock is not held.
LockFree(holder) == holder = 0

\* Leaving `async with self._lock`, mutated: the lock stays held.
FlowReturns_KeepsLock(f) ==
    /\ fl_pc' = [fl_pc EXCEPT ![f] = "idle"]
    /\ fl_fails' = IF fl_op[f] = "record_failure" THEN fl_fails + 1 ELSE fl_fails
    /\ fl_adds' = IF fl_op[f] = "add" THEN fl_adds + 1 ELSE fl_adds
    /\ UNCHANGED <<cb_lock, dlq_lock, fl_op, fl_arg, fl_count, fl_queue,
                   fl_started, fl_kinds>>

\* A flow ends its call: the lock it held is released.
FlowReturns(f) ==
    /\ fl_pc' = [fl_pc EXCEPT ![f] = "idle"]
    /\ cb_lock' = IF fl_op[f] \in BreakerMethods THEN 0 ELSE cb_lock
    /\ dlq_lock' = IF fl_op[f] \in QueueMethods THEN 0 ELSE dlq_lock
    /\ fl_fails' = IF fl_op[f] = "record_failure" THEN fl_fails + 1 ELSE fl_fails
    /\ fl_adds' = IF fl_op[f] = "add" THEN fl_adds + 1 ELSE fl_adds
    /\ UNCHANGED <<fl_op, fl_arg, fl_count, fl_queue, fl_started, fl_kinds>>

\* A flow calls a method and comes to its `async with self._lock`. Flows
\* are alike, so the idle flow of lowest number makes the call.
FlowCall ==
    /\ fl_started < MaxFlowCalls
    /\ \E f \in FlowIds, op \in BreakerMethods \cup QueueMethods,
          payload \in Payloads :
          /\ fl_pc[f] = "idle"
          /\ \A g \in FlowIds : g < f => fl_pc[g] # "idle"
          /\ payload = IF op = "add" /\ fl_started % 2 = 1 THEN "b" ELSE "a"
          /\ fl_pc' = [fl_pc EXCEPT ![f] = "waiting"]
          /\ fl_op' = [fl_op EXCEPT ![f] = op]
          /\ fl_arg' = [fl_arg EXCEPT ![f] = payload]
          /\ fl_kinds' = fl_kinds \cup {op}
    /\ fl_started' = fl_started + 1
    /\ UNCHANGED <<fl_count, fl_queue, cb_lock, dlq_lock, fl_fails, fl_adds>>
    /\ UNCHANGED <<cbVars, dlqVars>>

\* The flow gets the lock of the object it calls.
FlowAcquire ==
    /\ \E f \in FlowIds :
          /\ fl_pc[f] = "waiting"
          /\ IF fl_op[f] \in BreakerMethods
             THEN LockFree(cb_lock) /\ cb_lock' = f /\ UNCHANGED dlq_lock
             ELSE LockFree(dlq_lock) /\ dlq_lock' = f /\ UNCHANGED cb_lock
          /\ fl_pc' = [fl_pc EXCEPT ![f] = "locked"]
    /\ UNCHANGED <<fl_op, fl_arg, fl_count, fl_queue, fl_started, fl_fails,
                   fl_adds, fl_kinds>>
    /\ UNCHANGED <<cbVars, dlqVars>>

\* record_failure reads self._failure_count, add reads self._queue.
FlowRead ==
    /\ \E f \in FlowIds :
          /\ fl_pc[f] = "locked"
          /\ fl_op[f] \in {"record_failure", "add"}
          /\ fl_count' = [fl_count EXCEPT ![f] = failure_count]
          /\ fl_queue' = [fl_queue EXCEPT ![f] = dlq_queue]
          /\ fl_pc' = [fl_pc EXCEPT ![f] = "read"]
    /\ UNCHANGED <<fl_op, fl_arg, cb_lock, dlq_lock, fl_started, fl_fails,
                   fl_adds, fl_kinds>>
    /\ UNCHANGED <<cbVars, dlqVars>>

\* record_failure writes what it computed from the counter it read, and
\* returns.
FlowFail ==
    /\ \E f \in FlowIds :
          /\ fl_pc[f] = "read"
          /\ fl_op[f] = "record_failure"
          /\ failure_count' = fl_count[f] + 1
          /\ last_failure_age' = 0
          /\ cb_state' = IF cb_state = "half_open" THEN "open"
                         ELSE IF cb_state = "closed"
                                 /\ ThresholdReached(fl_count[f] + 1)
                         THEN "open"
                         ELSE cb_state
          /\ FlowReturns(f)
    /\ cbOp' = "record_failure"
    /\ cbRet' = FALSE
    /\ failRun' = IF failRun # None /\ failRun < failure_threshold
                  THEN failRun + 1 ELSE None
    /\ succRun' = 0
    /\ TrackChange
    /\ TrackPeriod(0, 0)
    /\ UNCHANGED <<cbConfig, success_count, half_open_calls>>
    /\ UNCHANGED dlqVars

\* add builds its entry, evicts and appends on the list it read, and returns.
FlowAdd ==
    /\ \E f \in FlowIds :
          /\ fl_pc[f] = "read"
          /\ fl_op[f] = "add"
          /\ LET entry == NewEntry("enrichment", fl_arg[f]) IN
                IF AtCapacity(fl_queue[f]) /\ fl_queue[f] = <<>>
                THEN /\ dlqRet' = Raised("IndexError")
                     /\ UNCHANGED <<dlq_queue, dlq_log>>
                ELSE /\ dlq_queue' = Append(IF AtCapacity(fl_queue[f])
                                            THEN PopOldest(fl_queue[f])
                                            ELSE fl_queue[f], entry)
                     /\ dlqRet' = Returned(entry)
                     /\ dlq_log' = Append(dlq_log, entry)
          /\ FlowReturns(f)
    /\ dlqOp' = "add"
    /\ UNCHANGED <<max_size, dlq_now>>
    /\ UNCHANGED cbVars

\* can_execute or record_success runs its body and returns.
FlowBreakerCall ==
    /\ \E f \in FlowIds :
          /\ fl_pc[f] = "locked"
          /\ \/ fl_op[f] = "can_execute" /\ CanExecute
             \/ fl_op[f] = "record_success" /\ RecordSuccess
          /\ FlowReturns(f)
    /\ UNCHANGED dlqVars

\* remove or clear runs its body and returns.
FlowQueueCall ==
    /\ \E f \in FlowIds :
          /\ fl_pc[f] = "locked"
          /\ \/ fl_op[f] = "remove" /\ DlqRemove
             \/ fl_op[f] = "clear" /\ DlqClear
          /\ FlowReturns(f)
    /\ UNCHANGED cbVars

\* The recovery timeout passes while no flow is inside the breaker.
FlowWait ==
    /\ cb_lock = 0
    /\ AdvanceClock
    /\ last_failure_age' = recovery_timeout
    /\ UNCHANGED dlqVars
    /\ UNCHANGED <<fl_pc, fl_op, fl_arg, fl_count, fl_queue, cb_lock, dlq_lock,
                   fl_started, fl_fails, fl_adds, fl_kinds>>

\* A flow inside enrich_ip, enrich_domain or send_slack_notification makes
\* the next call of the guarded operation: can_execute first; after
\* can_execute either add (the breaker refused) or the external call; after
\* record_failure, add.
FlowGuarded ==
    /\ fl_started < MaxGuardedCalls
    /\ \E f \in FlowIds, op \in {"can_execute", "add"} :
          /\ fl_pc[f] = "idle"
          /\ \A g \in FlowIds : (g < f /\ fl_op[g] = "none") => fl_pc[g] # "idle"
          /\ op = "can_execute" => fl_op[f] \in {"none", "record_success", "add"}
          /\ op = "add" =>
                \/ fl_op[f] = "can_execute" /\ ~fl_admitted[f]
                \/ fl_op[f] = "record_failure"
          /\ fl_pc' = [fl_pc EXCEPT ![f] = "waiting"]
          /\ fl_op' = [fl_op EXCEPT ![f] = op]
          /\ fl_kinds' = fl_kinds \cup {op}
    /\ fl_started' = fl_started + 1
    /\ UNCHANGED <<fl_arg, fl_count, fl_queue, cb_lock, dlq_lock, fl_fails,
                   fl_adds>>
    /\ UNCHANGED <<cbVars, dlqVars>>

\* The flow awaits the external call, or asyncio.sleep between two attempts
\* of with_retry: it is suspended outside every method of the breaker and
\* the queue.
FlowSuspend ==
    /\ \E f \in FlowIds :
          /\ fl_pc[f] = "idle"
          /\ fl_op[f] = "can_execute"
          /\ fl_admitted[f]
          /\ fl_pc' = [fl_pc EXCEPT ![f] = "awaiting"]
    /\ UNCHANGED <<fl_op, fl_arg, fl_count, fl_queue, cb_lock, dlq_lock,
                   fl_started, fl_fails, fl_adds, fl_kinds>>
    /\ UNCHANGED <<cbVars, dlqVars>>

\* The awaited call returned or raised for the last time: the flow calls
\* record_success or record_failure.
FlowResume ==
    /\ fl_started < MaxGuardedCalls
    /\ \E f \in FlowIds, op \in {"record_success", "record_failure"} :
          /\ fl_pc[f] = "awaiting"
          /\ fl_pc' = [fl_pc EXCEPT ![f] = "waiting"]
          /\ fl_op' = [fl_op EXCEPT ![f] = op]
          /\ fl_kinds' = fl_kinds \cup {op}
    /\ fl_started' = fl_started + 1
    /\ UNCHANGED <<fl_arg, fl_count, fl_queue, cb_lock, dlq_lock, fl_fails,
                   fl_adds>>
    /\ UNCHANGED <<cbVars, dlqVars>>

\* fl_admitted follows the returns of can_execute (its answer) and of
\* record_success and record_failure (the call's outcome is recorded).
TrackAdmitted ==
    fl_admitted' =
       [f \in FlowIds |->
          IF fl_pc[f] # "idle" /\ fl_pc'[f] = "idle"
          THEN IF fl_op[f] = "can_execute" THEN cbRet'
               ELSE IF fl_op[f] \in {"record_success", "record_failure"}
               THEN FALSE
               ELSE fl_admitted[f]
          ELSE fl_admitted[f]]

\* A step inside a method of the breaker or the queue.
MethodStep ==
    FlowAcquire \/ FlowRead \/ FlowFail \/ FlowAdd \/ FlowBreakerCall
       \/ FlowQueueCall

\* A day passes after the last failure while no flow is inside the breaker.
FlowLongWait ==
    /\ cb_lock = 0
    /\ AdvanceClock
    /\ last_failure_age' = SecondsPerDay
    /\ UNCHANGED dlqVars
    /\ UNCHANGED <<fl_pc, fl_op, fl_arg, fl_count, fl_queue, cb_lock, dlq_lock,
                   fl_started, fl_fails, fl_adds, fl_kinds>>

\* The step is the return of a call of that method.
Returns(op) ==
    \E f \in FlowIds : fl_op[f] = op /\ fl_pc[f] # "idle" /\ fl_pc'[f] = "idle"

\* Nothing was lost: with only record_failure called on the breaker its
\* counter is the number of calls that returned, and the breaker is closed
\* while that is below the threshold; with only add called on the queue and
\* room for every entry, its length is the number of calls that returned.
NoLostUpdate ==
    /\ fl_kinds \cap BreakerMethods \subseteq {"record_failure"} =>
          /\ failure_count = fl_fails
          /\ failure_threshold > fl_fails => cb_state = "closed"
    /\ (fl_kinds \cap QueueMethods \subseteq {"add"} /\ fl_adds <= max_size) =>
          Len(dlq_queue) = fl_adds

\* C25: each method takes effect atomically. Whatever the interleaving, the
\* step in which a call returns changes the breaker, or the queue, as the
\* method's body run alone on the state of that moment would, so the outcome
\* is that of the calls run one after the other in the order of their
\* returns; and no update is lost.
C25_MethodsAreAtomic ==
    [][/\ Returns("can_execute") => can_execute
       /\ Returns("record_success") => record_success
       /\ Returns("record_failure") => record_failure
       /\ Returns("add") => add("enrichment", dlqRet'.value.payload)
                               \/ (dlqRet'.raised # "none"
                                   /\ \E payload \in Payloads :
                                         add("enrichment", payload))
       /\ Returns("remove") => DlqRemove
       /\ Returns("clear") => DlqClear
       /\ ~(\E f \in FlowIds : fl_pc[f] # "idle" /\ fl_pc'[f] = "idle") =>
             UNCHANGED <<cb_state, failure_count, success_count,
                         half_open_calls, dlq_queue>>
       /\ NoLostUpdate']_vars

\* C25 witness: one record_failure call has returned and the counter is 1;
\* now one flow is inside record_failure, past its read of the counter, and
\* another waits for the lock in its own record_failure call.
C25_Witness ==
    /\ fl_kinds = {"record_failure"}
    /\ fl_fails = 1
    /\ failure_count = 1
    /\ \E f, g \in FlowIds :
          /\ cb_lock = f
          /\ fl_pc[f] = "read"
          /\ fl_count[f] = 1
          /\ fl_pc[g] = "waiting"
          /\ fl_op[g] = "record_failure"

\* C29: the enrich operation on a stored alert sets its status to
\* processing, and whatever the lookups did it ends by storing the
\* enrichment mapping with status enriched; on an unknown id it reports
\* not-found and changes nothing.
C29_EnrichEndsEnriched ==
    [][/\ enrich_flows' > enrich_flows =>
             /\ db_alert'.status = "processing"
             /\ db_alert'.enrichment_data = db_alert.enrichment_data
       /\ enrich_flows' < enrich_flows =>
             /\ pbOp' \in {"enrich_end", "enrich_fallback"}
             /\ db_alert'.status = "enriched"
             /\ ~db_alert'.enrichment_data.none
             /\ db_alert'.enrichment_data.keys = IndicatorKeys(db_alert)
       /\ pbOp' = "enrich_not_found" =>
             UNCHANGED <<db_alert, enrich_flows, playbooks>>]_vars

\* C29 witness: an alert created pending with two indicators was enriched
\* while the lookups failed: it is enriched, with an entry per indicator.
C29_Witness ==
    /\ pbOp = "enrich_fallback"
    /\ enrich_flows = 0
    /\ db_alert.status = "enriched"
    /\ Cardinality(db_alert.enrichment_data.keys) = 2

\* C32: within one half-open period, from the can_execute that moves the
\* breaker from open to half-open and counting that call, can_execute answers
\* true at most half_open_max_calls times.
C32_ProbeBudget ==
    ho_admitted <= half_open_max_calls

\* C33: the breaker goes from half-open to closed only when
\* half_open_max_calls successes have been recorded since it last entered
\* half-open, no more of them than calls were admitted in that period.
C33_ClosesOnOwnSuccesses ==
    [][(cb_state = "half_open" /\ cb_state' = "closed") =>
          /\ ho_successes + 1 >= half_open_max_calls
          /\ ho_successes + 1 <= ho_admitted]_vars

\* C34: with a threshold of 1 or more, a closed breaker's failure counter is
\* below the threshold, and an open or half-open breaker has its last-failure
\* time set.
C34_CounterAndStamp ==
    failure_threshold >= 1 =>
       /\ cb_state = "closed" => failure_count < failure_threshold
       /\ cb_state \in {"open", "half_open"} => last_failure_age # None

\* C34 witness: a breaker that closed again after a half-open period has
\* since collected failures one short of its threshold.
C34_Witness ==
    /\ cb_state = "closed"
    /\ prev_state = "half_open"
    /\ failure_count > 0
    /\ failure_count = failure_threshold - 1
    /\ cbOp = "record_failure"

\* C37: when run_playbooks_for_alert returns a non-empty list, the alert's
\* status is completed if the last result has success true and failed if
\* not, whatever the earlier results were; it is never left at processing.
C37_StatusOfLastPlaybook ==
    (pc = "return" /\ results # <<>>) =>
        alert.status = IF results[Len(results)].success
                       THEN "completed" ELSE "failed"

\* C37 witness: a run returns with its first playbook failed and its last
\* one successful, and the alert completed.
C37_Witness ==
    /\ pc = "return"
    /\ Len(results) >= 2
    /\ ~results[1].success
    /\ results[Len(results)].success
    /\ alert.status = "completed"

\* C38, as claimed: find_matching_playbooks, and with it
\* run_playbooks_for_alert, returns normally for every alert and every
\* registry create_playbook has built: no call ends in an error raised by
\* the evaluation of a trigger.
C38_MatchingReturns ==
    pbOp \notin {"run_raised", "find_raised"}

\* ------------------------------------------- registry changes during a run
\* The run is suspended: the action it is about to execute awaits the
\* enrichment service, and other requests are served meanwhile.
Suspended ==
    /\ pc = "action"
    /\ act_idx <= Len(matching[pb_idx].actions)
    /\ AwaitsCollaborator(matching[pb_idx].actions[act_idx], alert)

\* The run's list, mutated: it is a view of the registry, so that a deleted
\* playbook the run has not reached yet leaves it.
RunListAfter_View(list, registry) ==
    IF /\ Len(list) > pb_idx
       /\ \A i \in 1..Len(registry) : registry[i].id # list[Len(list)].id
    THEN SubSeq(list, 1, Len(list) - 1)
    ELSE list

\* "matching = self.find_matching_playbooks(alert)" is a list of its own,
\* built by the comprehension before the loop: a change of self.playbooks
\* does not reach it.
RunListAfter(list, registry) == list

\* create_playbook of another request while the run is suspended.
MidRunCreate ==
    /\ Suspended
    /\ next_id < Len(DefaultPlaybooks) + 1 + MaxCreated
    /\ \E data \in CreateInputs :
          playbooks' = Registered(playbooks, [data EXCEPT !.id = next_id])
    /\ next_id' = next_id + 1
    /\ matching' = RunListAfter(matching, playbooks')
    /\ pbOp' = "create_playbook"
    /\ NotDelete
    /\ UNCHANGED <<db_alert, enrich_flows, pc, alert, pb_idx, act_idx,
                   actions_executed, overall_success, handled, results>>

\* delete_playbook of a registered playbook by another request while the
\* run is suspended.
MidRunDelete ==
    /\ Suspended
    /\ \E playbook_id \in RegisteredIds :
          /\ pb_arg' = playbook_id
          /\ playbooks' = Without(playbooks, playbook_id)
          /\ pb_deleted' = pb_deleted \cup {playbook_id}
    /\ pb_before' = playbooks
    /\ pb_ret' = "true"
    /\ matching' = RunListAfter(matching, playbooks')
    /\ pbOp' = "delete_playbook"
    /\ UNCHANGED <<next_id, db_alert, enrich_flows, pc, alert, pb_idx, act_idx,
                   actions_executed, overall_success, handled, results>>

\* The playbook ids of a list of playbooks or results, in order.
IdsOf(list) == [i \in 1..Len(list) |-> list[i].id]
ResultIds(res) == [i \in 1..Len(res) |-> res[i].playbook_id]

\* C39: the playbooks a run executes, and their order, are those
\* find_matching_playbooks listed at its start: the list does not change
\* while the run goes on, whatever is registered or deleted meanwhile, the
\* run returns one result per listed playbook in that order (a playbook
\* deleted meanwhile included), and the status and enrichment the run has
\* written to the alert leave the set of matching playbooks as it is for
\* the stored alert.
C39_RunListFixed ==
    [][/\ (pc # "idle" /\ pc' # "idle") => matching' = matching
       /\ pc' = "return" => ResultIds(results') = IdsOf(matching')
       /\ (pc' # "idle" /\ alert' # alert) =>
             MatchingIn(playbooks', alert') = MatchingIn(playbooks', alert)]_vars

\* C39 witness: a run returns a result for a playbook that was deleted
\* while it ran, and none for a matching playbook registered meanwhile.
C39_Witness ==
    /\ pc = "return"
    /\ \E i \in 1..Len(results) : results[i].playbook_id \notin RegisteredIds
    /\ \E i \in 1..Len(playbooks) :
          /\ playbooks[i].id >= Len(DefaultPlaybooks) + 1
          /\ check_trigger(playbooks[i], alert) = "true"

\* ------------------------------------------------ enrichment actions, whole
\* The action types whose handler awaits the enrichment service.
EnrichTypes == {"enrich_all", "enrich_ip", "enrich_domain"}

\* The lookups an enrichment action makes, in the order of the awaits:
\* enrich_alert asks for source_ip, destination_ip and domain, each if
\* present; enrich_ip and enrich_domain for their one indicator.
Lookups(action, a) ==
    LET wanted == IF action.type = "enrich_all"
                  THEN <<"source_ip", "destination_ip", "domain">>
                  ELSE IF action.type = "enrich_ip" THEN <<"source_ip">>
                  ELSE <<"domain">>
    IN  SelectSeq(wanted, LAMBDA k : a[k])

\* The service method that looks an indicator up.
LookupOp(key) == IF key = "domain" THEN "enrich_domain" ELSE "enrich_ip"

\* enrich_ip / enrich_domain, mutated: "except (httpx.HTTPError,
\* httpx.TimeoutException)", any other error leaves the method.
Swallowed_TransientOnly(e) == "HTTPError" \in Bases(e.cls)
\* enrich_ip / enrich_domain: "except Exception as e" keeps the error of the
\* request inside the method; it is returned as result["error"].
Swallowed(e) == "Exception" \in Bases(e.cls)

\* What the await of the lookup gives _execute_action: the record ("ok"),
\* or the error that left the method.
LookupOutcome ==
    IF svc_outcome # NoError /\ ~Swallowed(svc_outcome)
    THEN svc_outcome.msg ELSE "ok"

\* _execute_action is entered for an enrichment action; without an indicator
\* to look up it returns at once.
LkStart ==
    /\ ea_pc = "called"
    /\ svc_pc = "idle"
    /\ ea_action.type \in EnrichTypes
    /\ ea_before' = ea_alert.enrichment_data
    /\ ea_todo' = Lookups(ea_action, ea_alert)
    /\ IF Lookups(ea_action, ea_alert) = <<>>
       THEN LET done == execute_action(ea_action, ea_alert, "ok")
            IN  /\ ea_result' = done.result
                /\ ea_alert' = [ea_alert EXCEPT
                                   !.enrichment_data = done.enrichment_data]
                /\ ea_pc' = "returned"
       ELSE /\ ea_pc' = "lookup"
            /\ UNCHANGED <<ea_result, ea_alert>>
    /\ UNCHANGED <<ea_action, ea_collab, ea_delivers>>
    /\ UNCHANGED <<svcVars, cbVars, dlqVars, rtVars>>

\* await enrichment_service.enrich_ip(...) / enrich_domain(...) for the next
\* indicator.
LkCall ==
    /\ ea_pc = "lookup"
    /\ GuardBegin
    /\ svc_op' = LookupOp(Head(ea_todo))
    /\ ea_pc' = "awaiting"
    /\ UNCHANGED <<ea_action, ea_alert, ea_collab, ea_delivers, ea_before,
                   ea_result, ea_todo>>

\* The lookup is over. After the last one, or when an error left the
\* service, _execute_action finishes: the mapping is assigned and the
\* result returned.
LkReturn ==
    /\ ea_pc = "awaiting"
    /\ svc_pc = "idle"
    /\ IF LookupOutcome # "ok" \/ Tail(ea_todo) = <<>>
       THEN LET done == execute_action(ea_action, ea_alert, LookupOutcome)
            IN  /\ ea_result' = done.result
                /\ ea_alert' = [ea_alert EXCEPT
                                   !.enrichment_data = done.enrichment_data]
                /\ ea_pc' = "returned"
                /\ ea_todo' = <<>>
       ELSE /\ ea_todo' = Tail(ea_todo)
            /\ ea_pc' = "lookup"
            /\ UNCHANGED <<ea_result, ea_alert>>
    /\ UNCHANGED <<ea_action, ea_collab, ea_delivers, ea_before>>
    /\ UNCHANGED <<svcVars, cbVars, dlqVars, rtVars>>

\* The playbook's next enrichment action is called on the same alert.
LkNext ==
    /\ ea_pc = "returned"
    /\ ea_action' \in {Action(type, NoConfig) : type \in EnrichTypes}
    /\ ea_pc' = "called"
    /\ UNCHANGED <<ea_alert, ea_collab, ea_delivers, ea_before, ea_result,
                   ea_todo>>
    /\ UNCHANGED <<svcVars, cbVars, dlqVars, rtVars>>

\* The last lookup of the action was degraded: refused by the breaker, or
\* attempted and failed.
LookupRefused == svc_admitted = "false"
LookupFailed == svc_outcome # NoError

\* C36: an enrichment action reports success whatever the lookups did. When
\* a lookup was refused by the open circuit or failed after its attempts,
\* the service returned its mock record, the action wrote the mapping (an
\* entry for the indicator), and the failure shows as one dead-letter entry,
\* with one failure on the breaker when the call was attempted and none
\* when it was refused; the action's outcome, and the playbook flag and
\* status derived from it, are those of a success.
C36_EnrichActionSucceeds ==
    (ea_pc = "returned" /\ ea_action.type \in EnrichTypes) =>
        /\ ea_result.success
        /\ StatusAtEnd(OverallAfter(TRUE, ea_result.success)) = "completed"
        /\ ea_result.message = Handler(ea_action, [ea_alert EXCEPT
                                   !.enrichment_data = ea_before]).message
        /\ Lookups(ea_action, ea_alert) # <<>> =>
              /\ ~ea_alert.enrichment_data.none
              /\ \A i \in 1..Len(Lookups(ea_action, ea_alert)) :
                    Lookups(ea_action, ea_alert)[i]
                       \in ea_alert.enrichment_data.keys
              /\ (LookupRefused \/ LookupFailed) =>
                    /\ svc_result.data = "mock"
                    /\ Len(svc_dlq) = 1
                    /\ dlqRet.raised = "none"
              /\ LookupFailed =>
                    /\ svc_records = <<"failure">>
                    /\ svc_result.error = svc_outcome.msg
              /\ LookupRefused => svc_records = <<>>

\* C36 witness: an enrich-all action returned with success after its last
\* lookup failed in all its attempts, the failure recorded on the breaker
\* and dead-lettered.
C36_Witness ==
    /\ ea_pc = "returned"
    /\ ea_action.type = "enrich_all"
    /\ ea_result.success
    /\ svc_outcome = Error("HTTPError", "API returned status 500")
    /\ svc_calls = max_attempts
    /\ svc_records = <<"failure">>
    /\ Len(svc_dlq) = 1
    /\ "domain" \in ea_alert.enrichment_data.keys

\* ---------------------------------------------------------------- whole run
\* No _execute_action call is under way.
RunEaIdle ==
    /\ ea_action = Action("enrich_all", NoConfig)
    /\ ea_alert = db_alert
    /\ ea_collab = "ok"
    /\ ea_delivers = TRUE
    /\ ea_before = NoEnrichment
    /\ ea_result = [action |-> "none", success |-> TRUE, message |-> <<>>]
    /\ ea_pc = "returned"
    /\ ea_todo = <<>>

\* An action that awaits nothing outside the engine runs in one step.
PbLocal == PbAction /\ ~Suspended

\* execute_playbook awaits _execute_action for an enrichment action.
RunCallAction ==
    /\ Suspended
    /\ ea_pc = "returned"
    /\ ea_action' = matching[pb_idx].actions[act_idx]
    /\ ea_alert' = alert
    /\ ea_pc' = "called"
    /\ pc' = "awaiting"
    /\ pbOp' = "pb_call"
    /\ NotDelete
    /\ UNCHANGED <<ea_collab, ea_delivers, ea_before, ea_result, ea_todo>>
    /\ UNCHANGED <<playbooks, next_id, db_alert, enrich_flows, alert, matching,
                   pb_idx, act_idx, actions_executed, overall_success, handled,
                   results>>

\* _execute_action has returned: its result is appended and the flag
\* updated; the Alert object carries what the action wrote.
RunActionDone ==
    /\ pc = "awaiting"
    /\ ea_pc = "returned"
    /\ actions_executed' = Append(actions_executed, ea_result)
    /\ overall_success' = OverallAfter(overall_success, ea_result.success)
    /\ alert' = ea_alert
    /\ handled' = Append(handled, [type |-> ea_action.type, outcome |-> "ok"])
    /\ act_idx' = act_idx + 1
    /\ pc' = "action"
    /\ pbOp' = "pb_action"
    /\ NotDelete
    /\ UNCHANGED eaVars
    /\ UNCHANGED <<playbooks, next_id, db_alert, enrich_flows, matching,
                   pb_idx, results>>

\* dead_letter_queue.add once MaxAdds entries have been logged: the queue
\* takes the entry as before, the log of all entries is not extended.
RunDeadLetterUnlogged ==
    /\ svc_pc \in {"rejected", "dead_letter"}
    /\ Len(dlq_log) >= MaxAdds
    /\ LET entry == NewEntry(svc_class, GuardPayload(svc_op)) IN
          /\ dlq_queue' = Append(IF AtCapacity(dlq_queue)
                                 THEN PopOldest(dlq_queue)
                                 ELSE dlq_queue, entry)
          /\ dlqRet' = Returned(entry)
    /\ dlqOp' = "add"
    /\ svc_dlq' = Append(svc_dlq,
                         IF svc_pc = "rejected"
                         THEN [cause |-> "circuit open",
                               error |-> RejectedError(svc_op)]
                         ELSE [cause |-> "error", error |-> svc_outcome.msg])
    /\ svc_result' = IF svc_pc = "rejected" THEN RejectedResult(svc_op)
                     ELSE FailedResult(svc_op, svc_outcome)
    /\ svc_pc' = "idle"
    /\ UNCHANGED <<max_size, dlq_now, dlq_log>>
    /\ UNCHANGED <<svc_class, svc_op, svc_admitted, svc_records, svc_calls,
                   svc_outcome, cbVars, rtVars>>

\* The recovery timeout passes between two lookups; the model lets it pass
\* while the failure counter is short of its cap.
RunWait ==
    /\ failure_count < MaxFailureCount - 1
    /\ GuardWait

\* The steps of a started run, from its first execute_playbook to the last
\* append.
RunStep ==
    \/ PbBegin /\ UNCHANGED <<cbVars, dlqVars, rtVars, svcVars, eaVars, ctVars, flVars>>
    \/ PbLocal /\ UNCHANGED <<cbVars, dlqVars, rtVars, svcVars, eaVars, ctVars, flVars>>
    \/ PbEnd /\ UNCHANGED <<cbVars, dlqVars, rtVars, svcVars, eaVars, ctVars, flVars>>
    \/ RunCallAction /\ UNCHANGED <<cbVars, dlqVars, rtVars, svcVars, ctVars, flVars>>
    \/ RunActionDone /\ UNCHANGED <<cbVars, dlqVars, rtVars, svcVars, ctVars, flVars>>
    \/ LkStart /\ UNCHANGED <<pbVars, ctVars, flVars>>
    \/ LkCall /\ UNCHANGED <<pbVars, ctVars, flVars>>
    \/ LkReturn /\ UNCHANGED <<pbVars, ctVars, flVars>>
    \/ GuardCheck /\ UNCHANGED <<pbVars, eaVars, ctVars, flVars>>
    \/ GuardRejected /\ UNCHANGED <<pbVars, eaVars, ctVars, flVars>>
    \/ GuardCall /\ UNCHANGED <<pbVars, eaVars, ctVars, flVars>>
    \/ GuardInvoke /\ UNCHANGED <<pbVars, eaVars, ctVars, flVars>>
    \/ GuardSleep /\ UNCHANGED <<pbVars, eaVars, ctVars, flVars>>
    \/ GuardExhausted /\ UNCHANGED <<pbVars, eaVars, ctVars, flVars>>
    \/ GuardSucceeded /\ UNCHANGED <<pbVars, eaVars, ctVars, flVars>>
    \/ GuardFailed /\ UNCHANGED <<pbVars, eaVars, ctVars, flVars>>
    \/ GuardDeadLetter /\ UNCHANGED <<pbVars, eaVars, ctVars, flVars>>
    \/ RunDeadLetterUnlogged /\ UNCHANGED <<pbVars, eaVars, ctVars, flVars>>

\* C40, as claimed: every run_playbooks_for_alert invocation ends by
\* returning, none by raising; no guarded call makes more than max_attempts
\* attempts; and every run that is under way reaches its return with
\* exactly one result per playbook listed at its start, in that order.
C40_RunTerminates ==
    /\ [](pbOp # "run_raised" /\ pc # "raised")
    /\ [](Len(rt_log) <= max_attempts)
    /\ (pc # "idle") ~> (pc = "return" /\ ResultIds(results) = IdsOf(matching))

\* No probe is outstanding, the breaker is half-open, and can_execute would
\* refuse: nothing is left that could close or reopen the breaker.
StuckHalfOpen ==
    /\ cb_state = "half_open"
    /\ \A f \in FlowIds : ~fl_admitted[f]
    /\ half_open_calls >= half_open_max_calls

\* C35: with every admitted call recording one outcome, the breaker is never
\* half-open with no admitted call outstanding and can_execute refusing; and
\* the can_execute made on an open breaker once recovery_timeout has passed
\* since the last failure admits the call.
C35_NeverStuck ==
    [][/\ ~StuckHalfOpen'
       /\ (/\ Returns("can_execute")
           /\ cb_state = "open"
           /\ last_failure_age # None
           /\ last_failure_age >= recovery_timeout) => cbRet']_vars

\* C31: a flow that waits on an external call or sleeps between attempts
\* holds neither a breaker lock nor the queue lock, and no flow holds both
\* locks; so while one flow is suspended the calls other flows have begun
\* can go on, and whenever a flow is inside a method some flow inside a
\* method can take a step: the locks never block each other.
C31_NoLockWhileAwaiting ==
    /\ \A f \in FlowIds :
          /\ fl_pc[f] \in {"idle", "awaiting", "waiting"} =>
                (cb_lock # f /\ dlq_lock # f)
          /\ ~(cb_lock = f /\ dlq_lock = f)
    /\ (\E f \in FlowIds : fl_pc[f] \in {"waiting", "locked", "read"}) =>
          ENABLED MethodStep

\* C31 witness: one flow is suspended in its external call or backoff sleep
\* while another, which began after it, is inside record_failure holding
\* the breaker's lock.
C31_Witness ==
    \E f, g \in FlowIds :
       /\ fl_pc[f] = "awaiting"
       /\ fl_pc[g] = "read"
       /\ fl_op[g] = "record_failure"
       /\ cb_lock = g

\* ------------------------------------------------------------ specifications
\* A component a specification does not exercise stays as constructed.
CbIdle ==
    /\ CbInit
    /\ failure_threshold = 1
    /\ recovery_timeout = EnrichmentRecoveryTimeout
    /\ half_open_max_calls = 1

DlqIdle ==
    /\ DlqInit
    /\ max_size = 1

PbIdle ==
    /\ PbInit
    /\ db_alert = CHOOSE a \in AlertInputs : a.severity = "critical"

RetryIdle ==
    /\ RetryFresh
    /\ max_attempts = 3
    /\ min_wait = 1
    /\ max_wait = 10
    /\ exceptions = {"HTTPError", "TimeoutException"}

EaIdle ==
    /\ EaInit
    /\ ea_alert = CHOOSE a \in ActionAlerts :
                      a.enrichment_data = NoEnrichment
                      /\ a.source_ip /\ a.destination_ip /\ a.domain
    /\ ea_action = Action("enrich_all", NoConfig)
    /\ ea_collab = "ok"
    /\ ea_delivers

CtIdle ==
    /\ CtInit
    /\ ct_playbook = Playbook(1, TRUE, "", <<>>, <<>>, <<>>)
    /\ ct_alert = StoredAlert(<<"L", "o", "g", "i", "n">>, "low", "edr",
                              FALSE, FALSE, FALSE)

InitCB ==
    CbInit /\ DlqIdle /\ PbIdle /\ RetryIdle /\ GuardIdle /\ EaIdle /\ CtIdle /\ FlowsIdle

NextCB ==
    \/ CanExecute /\ UNCHANGED <<dlqVars, pbVars, rtVars, svcVars, eaVars, ctVars, flVars>>
    \/ RecordSuccess /\ UNCHANGED <<dlqVars, pbVars, rtVars, svcVars, eaVars, ctVars, flVars>>
    \/ RecordFailure /\ UNCHANGED <<dlqVars, pbVars, rtVars, svcVars, eaVars, ctVars, flVars>>
    \/ GetStatus /\ UNCHANGED <<dlqVars, pbVars, rtVars, svcVars, eaVars, ctVars, flVars>>
    \/ AdvanceClock /\ UNCHANGED <<dlqVars, pbVars, rtVars, svcVars, eaVars, ctVars, flVars>>

SpecCB == InitCB /\ [][NextCB]_vars

InitDLQ ==
    CbIdle /\ DlqInit /\ PbIdle /\ RetryIdle /\ GuardIdle /\ EaIdle /\ CtIdle /\ FlowsIdle

NextDLQ ==
    \/ DlqAdd /\ UNCHANGED <<cbVars, pbVars, rtVars, svcVars, eaVars, ctVars, flVars>>
    \/ DlqRemove /\ UNCHANGED <<cbVars, pbVars, rtVars, svcVars, eaVars, ctVars, flVars>>
    \/ DlqClear /\ UNCHANGED <<cbVars, pbVars, rtVars, svcVars, eaVars, ctVars, flVars>>
    \/ DlqTick /\ UNCHANGED <<cbVars, pbVars, rtVars, svcVars, eaVars, ctVars, flVars>>

SpecDLQ == InitDLQ /\ [][NextDLQ]_vars

InitPB ==
    CbIdle /\ DlqIdle /\ PbInit /\ RetryIdle /\ GuardIdle /\ EaIdle /\ CtIdle /\ FlowsIdle

NextPB ==
    \/ CreatePlaybook /\ UNCHANGED <<cbVars, dlqVars, rtVars, svcVars, eaVars, ctVars, flVars>>
    \/ DeletePlaybook /\ pb_ret' = "true" /\ UNCHANGED <<cbVars, dlqVars, rtVars, svcVars, eaVars, ctVars, flVars>>
    \/ RunStart /\ UNCHANGED <<cbVars, dlqVars, rtVars, svcVars, eaVars, ctVars, flVars>>
    \/ PbBegin /\ UNCHANGED <<cbVars, dlqVars, rtVars, svcVars, eaVars, ctVars, flVars>>
    \/ PbAction /\ UNCHANGED <<cbVars, dlqVars, rtVars, svcVars, eaVars, ctVars, flVars>>
    \/ PbEnd /\ UNCHANGED <<cbVars, dlqVars, rtVars, svcVars, eaVars, ctVars, flVars>>
    \/ RunReturn /\ UNCHANGED <<cbVars, dlqVars, rtVars, svcVars, eaVars, ctVars, flVars>>
    \/ EnrichBegin /\ UNCHANGED <<cbVars, dlqVars, rtVars, svcVars, eaVars, ctVars, flVars>>
    \/ EnrichEnd /\ UNCHANGED <<cbVars, dlqVars, rtVars, svcVars, eaVars, ctVars, flVars>>

SpecPB == InitPB /\ [][NextPB]_vars

InitRegistry ==
    CbIdle /\ DlqIdle /\ PbInit /\ RetryIdle /\ GuardIdle /\ EaIdle /\ CtIdle /\ FlowsIdle

NextRegistry ==
    \/ CreatePlaybook /\ UNCHANGED <<cbVars, dlqVars, rtVars, svcVars, eaVars, ctVars, flVars>>
    \/ DeletePlaybook /\ UNCHANGED <<cbVars, dlqVars, rtVars, svcVars, eaVars, ctVars, flVars>>
    \/ FindMatching /\ UNCHANGED <<cbVars, dlqVars, rtVars, svcVars, eaVars, ctVars, flVars>>

SpecRegistry == InitRegistry /\ [][NextRegistry]_vars

InitEnrich ==
    CbIdle /\ DlqIdle /\ PbInit /\ RetryIdle /\ GuardIdle /\ EaIdle /\ CtIdle /\ FlowsIdle

NextEnrich ==
    \/ RunStart /\ UNCHANGED <<cbVars, dlqVars, rtVars, svcVars, eaVars, ctVars, flVars>>
    \/ PbBegin /\ UNCHANGED <<cbVars, dlqVars, rtVars, svcVars, eaVars, ctVars, flVars>>
    \/ PbAction /\ UNCHANGED <<cbVars, dlqVars, rtVars, svcVars, eaVars, ctVars, flVars>>
    \/ PbEnd /\ UNCHANGED <<cbVars, dlqVars, rtVars, svcVars, eaVars, ctVars, flVars>>
    \/ RunReturn /\ UNCHANGED <<cbVars, dlqVars, rtVars, svcVars, eaVars, ctVars, flVars>>
    \/ EnrichBegin /\ UNCHANGED <<cbVars, dlqVars, rtVars, svcVars, eaVars, ctVars, flVars>>
    \/ EnrichEnd /\ UNCHANGED <<cbVars, dlqVars, rtVars, svcVars, eaVars, ctVars, flVars>>
    \/ EnrichUnknown /\ UNCHANGED <<cbVars, dlqVars, rtVars, svcVars, eaVars, ctVars, flVars>>

SpecEnrich == InitEnrich /\ [][NextEnrich]_vars

InitFlows ==
    /\ CbInit /\ DlqInit
    /\ failure_threshold \in {1, MaxThreshold}
    /\ recovery_timeout = EnrichmentRecoveryTimeout
    /\ half_open_max_calls = 1
    /\ max_size \in {1, MaxCapacity}
    /\ PbIdle /\ RetryIdle /\ GuardIdle /\ EaIdle /\ CtIdle /\ FlowsIdle

NextFlows ==
    \/ FlowCall /\ UNCHANGED <<fl_admitted, pbVars, rtVars, svcVars, eaVars, ctVars>>
    \/ FlowAcquire /\ UNCHANGED <<fl_admitted, pbVars, rtVars, svcVars, eaVars, ctVars>>
    \/ FlowRead /\ UNCHANGED <<fl_admitted, pbVars, rtVars, svcVars, eaVars, ctVars>>
    \/ FlowFail /\ UNCHANGED <<fl_admitted, pbVars, rtVars, svcVars, eaVars, ctVars>>
    \/ FlowAdd /\ UNCHANGED <<fl_admitted, pbVars, rtVars, svcVars, eaVars, ctVars>>
    \/ FlowBreakerCall /\ UNCHANGED <<fl_admitted, pbVars, rtVars, svcVars, eaVars, ctVars>>
    \/ FlowQueueCall /\ UNCHANGED <<fl_admitted, pbVars, rtVars, svcVars, eaVars, ctVars>>
    \/ FlowWait /\ UNCHANGED <<fl_admitted, pbVars, rtVars, svcVars, eaVars, ctVars>>

SpecFlows == InitFlows /\ [][NextFlows]_vars

InitAwait == InitFlows

NextAwait ==
    \/ FlowGuarded /\ TrackAdmitted /\ UNCHANGED <<pbVars, rtVars, svcVars, eaVars, ctVars>>
    \/ FlowSuspend /\ TrackAdmitted /\ UNCHANGED <<pbVars, rtVars, svcVars, eaVars, ctVars>>
    \/ FlowResume /\ TrackAdmitted /\ UNCHANGED <<pbVars, rtVars, svcVars, eaVars, ctVars>>
    \/ FlowAcquire /\ TrackAdmitted /\ UNCHANGED <<pbVars, rtVars, svcVars, eaVars, ctVars>>
    \/ FlowRead /\ TrackAdmitted /\ UNCHANGED <<pbVars, rtVars, svcVars, eaVars, ctVars>>
    \/ FlowFail /\ TrackAdmitted /\ UNCHANGED <<pbVars, rtVars, svcVars, eaVars, ctVars>>
    \/ FlowAdd /\ TrackAdmitted /\ UNCHANGED <<pbVars, rtVars, svcVars, eaVars, ctVars>>
    \/ FlowBreakerCall /\ TrackAdmitted /\ UNCHANGED <<pbVars, rtVars, svcVars, eaVars, ctVars>>
    \/ FlowLongWait /\ TrackAdmitted /\ UNCHANGED <<pbVars, rtVars, svcVars, eaVars, ctVars>>
    \/ FlowWait /\ TrackAdmitted /\ UNCHANGED <<pbVars, rtVars, svcVars, eaVars, ctVars>>

SpecAwait == InitAwait /\ [][NextAwait]_vars

InitRetry ==
    CbIdle /\ DlqIdle /\ PbIdle /\ RetryInit /\ GuardIdle /\ EaIdle /\ CtIdle /\ FlowsIdle

NextRetry ==
    \/ RetryCall /\ UNCHANGED <<cbVars, dlqVars, pbVars, svcVars, eaVars, ctVars, flVars>>
    \/ RetryInvoke /\ UNCHANGED <<cbVars, dlqVars, pbVars, svcVars, eaVars, ctVars, flVars>>
    \/ RetrySleep /\ UNCHANGED <<cbVars, dlqVars, pbVars, svcVars, eaVars, ctVars, flVars>>
    \/ RetryExhausted /\ UNCHANGED <<cbVars, dlqVars, pbVars, svcVars, eaVars, ctVars, flVars>>

SpecRetry == InitRetry /\ [][NextRetry]_vars

InitGuard ==
    GuardInit /\ PbIdle /\ RetryIdle /\ EaIdle /\ CtIdle /\ FlowsIdle

NextGuard ==
    \/ GuardBegin /\ UNCHANGED <<pbVars, eaVars, ctVars, flVars>>
    \/ GuardCheck /\ UNCHANGED <<pbVars, eaVars, ctVars, flVars>>
    \/ GuardRejected /\ UNCHANGED <<pbVars, eaVars, ctVars, flVars>>
    \/ GuardCall /\ UNCHANGED <<pbVars, eaVars, ctVars, flVars>>
    \/ GuardInvoke /\ UNCHANGED <<pbVars, eaVars, ctVars, flVars>>
    \/ GuardSleep /\ UNCHANGED <<pbVars, eaVars, ctVars, flVars>>
    \/ GuardExhausted /\ UNCHANGED <<pbVars, eaVars, ctVars, flVars>>
    \/ GuardSucceeded /\ UNCHANGED <<pbVars, eaVars, ctVars, flVars>>
    \/ GuardFailed /\ UNCHANGED <<pbVars, eaVars, ctVars, flVars>>
    \/ GuardDeadLetter /\ UNCHANGED <<pbVars, eaVars, ctVars, flVars>>
    \/ GuardWait /\ UNCHANGED <<pbVars, eaVars, ctVars, flVars>>

SpecGuard == InitGuard /\ [][NextGuard]_vars

InitAction ==
    CbIdle /\ DlqIdle /\ PbIdle /\ RetryIdle /\ GuardIdle /\ EaInit /\ CtIdle /\ FlowsIdle

NextAction ==
    \/ EaExecute /\ UNCHANGED <<cbVars, dlqVars, pbVars, rtVars, svcVars, ctVars, flVars>>
    \/ EaCall /\ UNCHANGED <<cbVars, dlqVars, pbVars, rtVars, svcVars, ctVars, flVars>>

SpecAction == InitAction /\ [][NextAction]_vars

InitMidRun ==
    CbIdle /\ DlqIdle /\ PbInit /\ RetryIdle /\ GuardIdle /\ EaIdle /\ CtIdle /\ FlowsIdle

NextMidRun ==
    \/ RunStart /\ UNCHANGED <<cbVars, dlqVars, rtVars, svcVars, eaVars, ctVars, flVars>>
    \/ PbBegin /\ UNCHANGED <<cbVars, dlqVars, rtVars, svcVars, eaVars, ctVars, flVars>>
    \/ PbAction /\ UNCHANGED <<cbVars, dlqVars, rtVars, svcVars, eaVars, ctVars, flVars>>
    \/ PbEnd /\ UNCHANGED <<cbVars, dlqVars, rtVars, svcVars, eaVars, ctVars, flVars>>
    \/ RunReturn /\ UNCHANGED <<cbVars, dlqVars, rtVars, svcVars, eaVars, ctVars, flVars>>
    \/ MidRunCreate /\ UNCHANGED <<cbVars, dlqVars, rtVars, svcVars, eaVars, ctVars, flVars>>
    \/ MidRunDelete /\ UNCHANGED <<cbVars, dlqVars, rtVars, svcVars, eaVars, ctVars, flVars>>

SpecMidRun == InitMidRun /\ [][NextMidRun]_vars

InitRun ==
    /\ CbInit
    /\ failure_threshold \in {1, 2}
    /\ recovery_timeout = EnrichmentRecoveryTimeout
    /\ half_open_max_calls = 1
    /\ DlqInit
    /\ max_size = MaxCapacity
    /\ PbInit /\ RetryIdle /\ GuardIdle /\ RunEaIdle /\ CtIdle /\ FlowsIdle

NextRun ==
    \/ CreatePlaybook /\ UNCHANGED <<cbVars, dlqVars, rtVars, svcVars, eaVars, ctVars, flVars>>
    \/ RunStart /\ UNCHANGED <<cbVars, dlqVars, rtVars, svcVars, eaVars, ctVars, flVars>>
    \/ RunReturn /\ UNCHANGED <<cbVars, dlqVars, rtVars, svcVars, eaVars, ctVars, flVars>>
    \/ RunWait /\ UNCHANGED <<pbVars, eaVars, ctVars, flVars>>
    \/ RunStep

SpecRun == InitRun /\ [][NextRun]_vars /\ WF_vars(RunStep)

InitLookup ==
    /\ GuardInit
    /\ svc_class = "enrichment"
    /\ failure_threshold \in {1, 2}
    /\ half_open_max_calls = 1
    /\ max_size = MaxCapacity
    /\ EaInit
    /\ ea_alert.enrichment_data = NoEnrichment
    /\ ea_alert.destination_ip => ea_alert.source_ip
    /\ ea_action \in {Action(type, NoConfig) : type \in EnrichTypes}
    /\ ea_collab = "ok"
    /\ ea_delivers
    /\ PbIdle /\ RetryIdle /\ CtIdle /\ FlowsIdle

NextLookup ==
    \/ LkStart /\ UNCHANGED <<pbVars, ctVars, flVars>>
    \/ LkCall /\ UNCHANGED <<pbVars, ctVars, flVars>>
    \/ LkReturn /\ UNCHANGED <<pbVars, ctVars, flVars>>
    \/ LkNext /\ UNCHANGED <<pbVars, ctVars, flVars>>
    \/ GuardCheck /\ UNCHANGED <<pbVars, eaVars, ctVars, flVars>>
    \/ GuardRejected /\ UNCHANGED <<pbVars, eaVars, ctVars, flVars>>
    \/ GuardCall /\ UNCHANGED <<pbVars, eaVars, ctVars, flVars>>
    \/ GuardInvoke /\ UNCHANGED <<pbVars, eaVars, ctVars, flVars>>
    \/ GuardSleep /\ UNCHANGED <<pbVars, eaVars, ctVars, flVars>>
    \/ GuardExhausted /\ UNCHANGED <<pbVars, eaVars, ctVars, flVars>>
    \/ GuardSucceeded /\ UNCHANGED <<pbVars, eaVars, ctVars, flVars>>
    \/ GuardFailed /\ UNCHANGED <<pbVars, eaVars, ctVars, flVars>>
    \/ GuardDeadLetter /\ UNCHANGED <<pbVars, eaVars, ctVars, flVars>>
    \/ GuardWait /\ UNCHANGED <<pbVars, eaVars, ctVars, flVars>>

SpecLookup == InitLookup /\ [][NextLookup]_vars

InitTrigger ==
    CbIdle /\ DlqIdle /\ PbIdle /\ RetryIdle /\ GuardIdle /\ EaIdle /\ CtInit /\ FlowsIdle

NextTrigger ==
    \/ CtCheck /\ UNCHANGED <<cbVars, dlqVars, pbVars, rtVars, svcVars, eaVars, flVars>>
    \/ CtAgain /\ UNCHANGED <<cbVars, dlqVars, pbVars, rtVars, svcVars, eaVars, flVars>>

SpecTrigger == InitTrigger /\ [][NextTrigger]_vars

====
